---------------------------- MODULE Spec2Model ----------------------------
(***************************************************************************)
(* A model of the EPLAN eVIEW extraction engine: the retry-with-backoff    *)
(* wrapper (utils/retry.py), the TTL cache (core/cache.py), the extractor  *)
(* workflow and its row parser (core/extractor.py) and the GUI controller  *)
(* that drives the extractor on a worker thread (gui/app.py).              *)
(*                                                                         *)
(* Each component has its own specification (SpecRetry; SpecCache,         *)
(* SpecStore and SpecLock for the cache; SpecParse and SpecPattern for the *)
(* row parser; SpecEngine, and SpecEngineLive with a fair scroll loop;     *)
(* SpecGui); a specification leaves the variables of the other components  *)
(* at their initial values.                                                *)
(***************************************************************************)
EXTENDS Integers, Sequences, FiniteSets, TLC

\* Python's None, as a record so that it compares with results and errors.
None == [kind |-> "None"]

Min(a, b) == IF a <= b THEN a ELSE b

(***************************************************************************)
(* Bounds of the model.                                                    *)
(***************************************************************************)
\* Largest max_retries a call site of the SpecRetry specification passes.
MaxRetriesBound == 2
\* Number of distinguishable error values per error class.
NumErrorIds == 2
\* The clock of SpecCache runs from 0 to MaxTime ticks.
MaxTime == 4
\* Resolution of the clock: ticks per hour.
TicksPerHour == 2
\* Largest ttl_hours a cache of SpecCache is created with.
MaxTtlHours == 2
\* Faults (failed browser calls, stop requests) injected in one behaviour of
\* SpecEngine, and of SpecGui.
MaxFaults == 4
GuiFaults == 1
\* Calls each thread of SpecLock makes on the shared CacheManager.
MaxCalls == 2
\* Calls of cleanup made on one extractor in SpecEngine.
MaxCleanupCalls == 2
\* Longest row (in text nodes) of a page in SpecParse.
MaxNodes == 3
\* Longest token (in characters) put to the address pattern in SpecPattern.
MaxTokenLen == 5

VARIABLES
    \* ---- retry_with_backoff: decorator parameters ----
    max_retries, base_delay, max_delay, exceptions, on_retry,
    \* ---- retry_with_backoff.wrapper: locals and position ----
    attempt, last_exception, delay, wpc, log, result,
    \* ---- CacheManager: fields, backing file, clock, last call ----
    cache, cache_file, store, lock, thr, ttl_hours, now, last_op,
    \* ---- history: when and with what each key was last written ----
    written,
    \* ---- SeleniumEPlanExtractor instances and the runs that drive them ----
    ex, browser, site, faults,
    \* ---- EPlanExtractorGUI: _is_running and _extractor ----
    is_running, gui_extractor,
    \* ---- extract_current_plc_diagram_page: locals and position ----
    \* (row_key and row_value are the locals `key` and `value`)
    rows, extracted, row, pos, row_key, row_value, ppc, rows_seen, out,
    \* ---- ADDRESS_PATTERN put to one token: the token and the verdicts ----
    token, matched

retryParams == <<max_retries, base_delay, max_delay, exceptions, on_retry>>
retryVars == <<max_retries, base_delay, max_delay, exceptions, on_retry,
               attempt, last_exception, delay, wpc, log, result>>

cacheVars == <<cache, cache_file, store, lock, thr, ttl_hours, now, last_op,
               written>>

engineVars == <<ex, browser, site, faults>>
guiVars == <<is_running, gui_extractor>>
rowVars == <<rows, extracted, row, pos, row_key, row_value, ppc,
             rows_seen, out>>
patternVars == <<token, matched>>
parseVars == <<rowVars, patternVars>>

vars == <<retryVars, cacheVars, engineVars, guiVars, parseVars>>

\* What the actions of one component leave alone.
notRetry == <<cacheVars, engineVars, guiVars, parseVars>>
notCache == <<retryVars, engineVars, guiVars, parseVars>>
notParse == <<retryVars, cacheVars, engineVars, guiVars, patternVars>>
notPattern == <<retryVars, cacheVars, engineVars, guiVars, rowVars>>

(***************************************************************************)
(*                    utils/retry.py: retry_with_backoff                   *)
(***************************************************************************)

\* The exception classes an operation of the model raises, and the classes a
\* call site may list in `exceptions`.
ErrorKinds == {"ValueError", "WebDriverException", "TimeoutException"}

\* Python's class hierarchy: every kind is an Exception, and selenium's
\* TimeoutException derives from WebDriverException.
IsSubclass(kind, cls) ==
    \/ kind = cls
    \/ cls = "Exception"
    \/ kind = "TimeoutException" /\ cls = "WebDriverException"

\* The `exceptions` tuples of the call sites: the decorator's default, the
\* extractor's (setup_driver, click_on_login_with_microsoft) and a narrow one.
ExceptionTuples ==
    { {"Exception"}, {"WebDriverException", "TimeoutException"}, {"ValueError"} }

Errors == [kind : ErrorKinds, id : 1..NumErrorIds]
Values == {"success", "other"}

\* `except exceptions as e`: the handler is entered for instances of the
\* listed classes only.
CaughtAll(e, excs) == TRUE
Caught(e, excs) == \E cls \in excs : IsSubclass(e.kind, cls)

\* `for attempt in range(max_retries + 1)`: whether index a is in the range.
InRangeShort(a, n) == a < n
InRange(a, n) == a < n + 1

\* `if attempt < max_retries`
HasRetryLeft(a, n) == a < n

\* `delay = min(base_delay * (2 ** attempt), max_delay)`
BackoffDelayUncapped(base, max, a) == base * (2 ^ a)
BackoffDelayDoubled(base, max, a) == Min(base * (2 ^ (a + 1)), max)
BackoffDelay(base, max, a) == Min(base * (2 ^ a), max)

\* `last_exception = e`
RecordExceptionKeepFirst(prev, e) == IF prev = None THEN e ELSE prev
RecordException(prev, e) == e

\* `return func(*args, **kwargs)`
ReturnOfNothing(v) == [kind |-> "return", value |-> "None"]
ReturnOf(v) == [kind |-> "return", value |-> v]

\* An exception leaving the wrapper.
RaiseOf(e) == [kind |-> "raise", error |-> e]

RetryInit ==
    /\ max_retries \in 0..MaxRetriesBound
    /\ base_delay \in {1, 2}
    /\ max_delay \in {1, 3}
    /\ exceptions \in ExceptionTuples
    /\ on_retry \in BOOLEAN
    /\ attempt = 0
    /\ last_exception = None
    /\ delay = 0
    /\ wpc = IF InRange(0, max_retries) THEN "call" ELSE "raise"
    /\ log = <<>>
    /\ result = None

\* The retry component when another component is under study.
RetryIdle ==
    /\ max_retries = 0
    /\ base_delay = 1
    /\ max_delay = 1
    /\ exceptions = {"Exception"}
    /\ on_retry = FALSE
    /\ attempt = 0
    /\ last_exception = None
    /\ delay = 0
    /\ wpc = "unused"
    /\ log = <<>>
    /\ result = None

\* The loop moves on to the next index, or ends and reaches the final raise.
ForNext(a) == IF InRange(a + 1, max_retries) THEN "call" ELSE "raise"

\* One invocation of the wrapped function that returns a value.
WrapperCallReturns ==
    /\ wpc = "call"
    /\ \E v \in Values :
        /\ log' = Append(log, [ev |-> "call", attempt |-> attempt,
                               outcome |-> "return", x |-> v])
        /\ result' = ReturnOf(v)
    /\ wpc' = "returned"
    /\ UNCHANGED <<retryParams, attempt, last_exception, delay, notRetry>>

\* One invocation that raises: the handler runs for a listed class, any
\* other exception leaves the wrapper at once.
WrapperCallRaises ==
    /\ wpc = "call"
    /\ \E e \in Errors :
        /\ log' = Append(log, [ev |-> "call", attempt |-> attempt,
                               outcome |-> "raise", x |-> e])
        /\ IF Caught(e, exceptions)
           THEN /\ last_exception' = RecordException(last_exception, e)
                /\ result' = result
                /\ IF HasRetryLeft(attempt, max_retries)
                   THEN /\ delay' = BackoffDelay(base_delay, max_delay, attempt)
                        /\ wpc' = IF on_retry THEN "on_retry" ELSE "sleep"
                        /\ attempt' = attempt
                   ELSE /\ delay' = delay
                        /\ wpc' = ForNext(attempt)
                        /\ attempt' = attempt + 1
           ELSE /\ result' = RaiseOf(e)
                /\ wpc' = "raised"
                /\ UNCHANGED <<attempt, last_exception, delay>>
    /\ UNCHANGED <<retryParams, notRetry>>

\* `on_retry(e, attempt)`; the callback is taken to return normally.
WrapperOnRetry ==
    /\ wpc = "on_retry"
    /\ log' = Append(log, [ev |-> "on_retry", attempt |-> attempt,
                           outcome |-> "called", x |-> last_exception])
    /\ wpc' = "sleep"
    /\ UNCHANGED <<retryParams, attempt, last_exception, delay, result, notRetry>>

\* `time.sleep(delay)`, then the next loop index.
WrapperSleep ==
    /\ wpc = "sleep"
    /\ log' = Append(log, [ev |-> "sleep", attempt |-> attempt,
                           outcome |-> "slept", x |-> delay])
    /\ wpc' = ForNext(attempt)
    /\ attempt' = attempt + 1
    /\ UNCHANGED <<retryParams, last_exception, delay, result, notRetry>>

\* `raise last_exception` after the loop.
WrapperRaise ==
    /\ wpc = "raise"
    /\ result' = RaiseOf(last_exception)
    /\ wpc' = "raised"
    /\ UNCHANGED <<retryParams, attempt, last_exception, delay, log, notRetry>>

RetryNext ==
    \/ WrapperCallReturns
    \/ WrapperCallRaises
    \/ WrapperOnRetry
    \/ WrapperSleep
    \/ WrapperRaise

(***************************************************************************)
(*                      core/cache.py: CacheManager                        *)
(***************************************************************************)

\* Addresses are strings, kept as tuples of characters so that Python's
\* string order can be computed on them.
A_I1_0 == <<"I", "1", ".", "0">>
A_I10_0 == <<"I", "1", "0", ".", "0">>
A_I2_0 == <<"I", "2", ".", "0">>
A_QW2_1 == <<"Q", "W", "2", ".", "1">>

\* ExtractedData values: dicts from address to variable name.
EmptyData == [a \in {} |-> "x"]
Data1 == [a \in {A_I1_0} |-> "Motor_Start"]
Data2 == [a \in {A_I1_0, A_QW2_1} |->
             IF a = A_I1_0 THEN "Motor_Stop" ELSE "Valve_Open"]
Datas == {Data1, Data2}

\* Projects and page names; two of the pairs join to the same text.
Projects == {"a", "a:b"}
PageNames == {"c", "b:c"}

\* `clear(project=None)`: the absent argument.
NoProject == "<None>"

\* The (project, page) pairs the store is called with; the last two join to
\* the same text.
Pages == {<<"a", "c">>, <<"a", "b:c">>, <<"a:b", "c">>}

\* An Optional return value.
Some(v) == [kind |-> "value", value |-> v]

\* sha256(content).hexdigest()[:16], taken to be free of collisions: two
\* contents get the same key exactly when they are the same text.
Sha256Hex16(content) == <<"sha256", content>>

\* `_generate_key`
_generate_key(project, page_name) == Sha256Hex16(project \o ":" \o page_name)

\* datetime.isoformat() / datetime.fromisoformat(): the hour field and the
\* rest of the time of day, written out and read back.
IsoformatHourOnly(t) == [hours |-> t \div TicksPerHour, rest |-> 0]
Isoformat(t) == [hours |-> t \div TicksPerHour, rest |-> t % TicksPerHour]
FromIsoformat(ts) == ts.hours * TicksPerHour + ts.rest

\* `_is_entry_valid`: age_hours = (now - cached_time) / 3600 s < ttl_hours,
\* a division of reals.
IsEntryValidInclusive(entry, t, ttl) ==
    /\ "timestamp" \in DOMAIN entry
    /\ t - FromIsoformat(entry.timestamp) <= ttl * TicksPerHour
_is_entry_valid(entry, t, ttl) ==
    /\ "timestamp" \in DOMAIN entry
    /\ t - FromIsoformat(entry.timestamp) < ttl * TicksPerHour

\* json.dump / json.load of the whole mapping: the file holds one member per
\* key.
JsonDump(c) == {<<k, c[k]>> : k \in DOMAIN c}
JsonLoad(text) ==
    [k \in {m[1] : m \in text} |-> (CHOOSE m \in text : m[1] = k)[2]]

\* The backing file: whether it exists, whether it can be opened for
\* writing, what kind of content it holds, and the members of the JSON
\* object when it holds one.
MissingFile(w) ==
    [exists |-> FALSE, writable |-> w, kind |-> "missing", text |-> {}]
DamagedFile(kind) ==
    [exists |-> TRUE, writable |-> TRUE, kind |-> kind, text |-> {}]

\* The file after json.dump has written the mapping.
Saved(c) ==
    [exists |-> TRUE, writable |-> TRUE, kind |-> "object",
     text |-> JsonDump(c)]

\* `_save_cache`: the file is rewritten, or open() raises IOError, which is
\* logged and swallowed, and the file stays as it was.
_save_cache(file, c) == IF file.writable THEN Saved(c) ELSE file

\* The elements of a file that holds a JSON array instead of an object.
ArrayContent == <<"x", "y">>

\* `__post_init__` / `_load_cache`: what the new object holds. A missing
\* file leaves the default {}; JSONDecodeError (empty file, text that is not
\* JSON) and IOError (unreadable file) are caught and give {}; a JSON array
\* is loaded as it is, so _cache is a list; bytes that are not UTF-8 raise
\* UnicodeDecodeError, which is not caught.
LoadResult(file) ==
    LET empty == [k \in {} |-> None]
    IN  CASE ~file.exists ->
               [store |-> "dict", cache |-> empty, raised |-> None]
          [] file.exists /\ file.kind = "object" ->
               [store |-> "dict", cache |-> JsonLoad(file.text), raised |-> None]
          [] file.exists /\ file.kind \in {"empty", "garbage", "unreadable"} ->
               [store |-> "dict", cache |-> empty, raised |-> None]
          [] file.exists /\ file.kind = "array" ->
               [store |-> "list", cache |-> empty, raised |-> None]
          [] file.exists /\ file.kind = "not_utf8" ->
               [store |-> "none", cache |-> empty,
                raised |-> RaiseOf([kind |-> "UnicodeDecodeError"])]

\* The mapping without the keys in `gone`.
Without(c, gone) == [k \in DOMAIN c \ gone |-> c[k]]

\* `get`: the value returned.
GetResult(c, project, page_name, t, ttl) ==
    LET key == _generate_key(project, page_name)
    IN  IF key \in DOMAIN c /\ _is_entry_valid(c[key], t, ttl)
        THEN Some(c[key].data)
        ELSE None

\* `set`: the mapping afterwards.
SetResultMerge(c, project, page_name, data, t) ==
    LET key == _generate_key(project, page_name)
        old == IF key \in DOMAIN c THEN c[key].data ELSE data
        entry == [project |-> project, page |-> page_name,
                  timestamp |-> Isoformat(t),
                  data |-> [a \in DOMAIN old \cup DOMAIN data |->
                               IF a \in DOMAIN data THEN data[a] ELSE old[a]]]
    IN  [k \in DOMAIN c \cup {key} |-> IF k = key THEN entry ELSE c[k]]
SetResult(c, project, page_name, data, t) ==
    LET key == _generate_key(project, page_name)
        entry == [project |-> project, page |-> page_name,
                  timestamp |-> Isoformat(t), data |-> data]
    IN  [k \in DOMAIN c \cup {key} |-> IF k = key THEN entry ELSE c[k]]

\* `clear`: the keys removed.
ClearedKeysAll(c, project) == DOMAIN c
ClearedKeys(c, project) ==
    IF project = NoProject
    THEN DOMAIN c
    ELSE {k \in DOMAIN c : c[k].project = project}

\* `cleanup_expired`: the keys removed.
ExpiredKeysStrict(c, t, ttl) ==
    {k \in DOMAIN c : t - FromIsoformat(c[k].timestamp) > ttl * TicksPerHour}
ExpiredKeys(c, t, ttl) == {k \in DOMAIN c : ~_is_entry_valid(c[k], t, ttl)}

\* The call of the store made at the current instant: what was called, with
\* what, and what it returned.
Op(op, project, page, ret, before) ==
    [op |-> op, project |-> project, page |-> page, ret |-> ret,
     before |-> before]

NoOp == Op("none", NoProject, "", None, [k \in {} |-> None])

\* The threads that call the store, and a thread that is not in a call.
Threads == {"worker", "controller"}
IdleThread ==
    [pc |-> "idle", op |-> "none", project |-> NoProject, page |-> "",
     data |-> EmptyData, keys |-> {}, seen |-> [k \in {} |-> None],
     ret |-> None, calls |-> 0]

\* A store created over a missing file (`__post_init__`, `_load_cache`).
CacheInit ==
    /\ cache = [k \in {} |-> None]
    /\ cache_file = MissingFile(TRUE)
    /\ store = "dict"
    /\ ttl_hours \in 1..MaxTtlHours
    /\ lock = "free"
    /\ thr = [t \in Threads |-> IdleThread]
    /\ now = 0
    /\ last_op = NoOp
    /\ written = [k \in {} |-> None]

CacheIdle ==
    /\ cache = [k \in {} |-> None]
    /\ cache_file = MissingFile(TRUE)
    /\ store = "dict"
    /\ ttl_hours = 1
    /\ lock = "free"
    /\ thr = [t \in Threads |-> IdleThread]
    /\ now = 0
    /\ last_op = NoOp
    /\ written = [k \in {} |-> None]

\* A get that drops the entry it finds expired.
AfterGetEvicting(c, project, page_name, t, ttl) ==
    LET key == _generate_key(project, page_name)
    IN  IF key \in DOMAIN c /\ ~_is_entry_valid(c[key], t, ttl)
        THEN Without(c, {key}) ELSE c

\* `get`: the mapping afterwards. The method reads self._cache and assigns
\* nothing.
AfterGet(c, project, page_name, t, ttl) == c

\* `get(project, page_name)`
Get(project, page_name) ==
    /\ store = "dict"
    /\ last_op' = Op("get", project, page_name,
                     GetResult(cache, project, page_name, now, ttl_hours),
                     cache)
    /\ cache' = AfterGet(cache, project, page_name, now, ttl_hours)
    /\ UNCHANGED <<cache_file, store, lock, thr, ttl_hours, now,
                   written, notCache>>

\* `set(project, page_name, data)`
Set(project, page_name, data) ==
    /\ store = "dict"
    /\ cache' = SetResult(cache, project, page_name, data, now)
    /\ cache_file' = _save_cache(cache_file, cache')
    /\ last_op' = Op("set", project, page_name, None, cache)
    /\ written' = [k \in DOMAIN written \cup {_generate_key(project, page_name)}
                      |-> IF k = _generate_key(project, page_name)
                          THEN [t |-> now, data |-> data]
                          ELSE written[k]]
    /\ UNCHANGED <<store, lock, thr, ttl_hours, now, notCache>>

\* `clear(project)`; project = NoProject is `clear()`.
Clear(project) ==
    LET gone == ClearedKeys(cache, project)
    IN  /\ store = "dict"
        /\ cache' = Without(cache, gone)
        /\ cache_file' = _save_cache(cache_file, cache')
        /\ last_op' = Op("clear", project, "", Cardinality(gone), cache)
        /\ written' = Without(written, gone)
        /\ UNCHANGED <<store, lock, thr, ttl_hours, now, notCache>>

\* `cleanup_expired()`
CleanupExpired ==
    LET gone == ExpiredKeys(cache, now, ttl_hours)
    IN  /\ store = "dict"
        /\ cache' = Without(cache, gone)
        /\ cache_file' = IF gone # {} THEN _save_cache(cache_file, cache')
                          ELSE cache_file
        /\ last_op' = Op("cleanup_expired", NoProject, "", Cardinality(gone),
                         cache)
        /\ written' = Without(written, gone)
        /\ UNCHANGED <<store, lock, thr, ttl_hours, now, notCache>>

\* The clock (datetime.now()) advances.
Tick ==
    /\ now < MaxTime
    /\ now' = now + 1
    /\ last_op' = NoOp
    /\ UNCHANGED <<cache, cache_file, store, lock, thr, ttl_hours, written,
                   notCache>>

CacheNext ==
    \/ \E pg \in Pages : Get(pg[1], pg[2])
    \/ \E pg \in Pages, d \in Datas : Set(pg[1], pg[2], d)
    \/ \E p \in Projects \cup {NoProject} : Clear(p)
    \/ CleanupExpired
    \/ Tick

\* The files a store may be opened over: none (in a directory that can or
\* cannot be written), an empty one, and four kinds of damaged content.
InitialFiles ==
    {MissingFile(TRUE), MissingFile(FALSE)} \cup
    {DamagedFile(k) : k \in {"empty", "garbage", "unreadable", "array",
                             "not_utf8"}}

\* What the entries of a mapping say about when and with what each key was
\* written.
WrittenOf(c) ==
    [k \in DOMAIN c |->
        [t |-> FromIsoformat(c[k].timestamp), data |-> c[k].data]]

\* CacheManager() over one of the initial files.
StoreInit ==
    \E f \in InitialFiles :
        /\ cache_file = f
        /\ cache = LoadResult(f).cache
        /\ store = LoadResult(f).store
        /\ ttl_hours = 1
        /\ lock = "free"
        /\ thr = [t \in Threads |-> IdleThread]
        /\ now = 0
        /\ last_op = Op("open", NoProject, "", LoadResult(f).raised,
                        [k \in {} |-> None])
        /\ written = [k \in {} |-> None]

\* The process ends, by a crash or otherwise, and a new CacheManager is
\* created over the file as it is.
Open ==
    LET r == LoadResult(cache_file)
    IN  /\ cache' = r.cache
        /\ store' = r.store
        /\ last_op' = Op("open", NoProject, "", r.raised, cache)
        /\ written' = WrittenOf(r.cache)
        /\ UNCHANGED <<cache_file, lock, thr, ttl_hours, now, notCache>>

\* A call on a store whose _cache is a list: get, clear(project) and
\* cleanup_expired raise AttributeError (no .get, no .items), set raises
\* TypeError (a list index must be an integer).
CallOnList(op) ==
    /\ store = "list"
    /\ last_op' = Op(op, "a", "c",
                     RaiseOf([kind |-> IF op = "set" THEN "TypeError"
                                       ELSE "AttributeError"]),
                     cache)
    /\ UNCHANGED <<cache, cache_file, store, lock, thr, ttl_hours, now,
                   written, notCache>>

\* clear() on a store whose _cache is a list: len() counts the elements,
\* _cache becomes {} and is saved.
ClearOnList ==
    /\ store = "list"
    /\ cache' = [k \in {} |-> None]
    /\ store' = "dict"
    /\ cache_file' = _save_cache(cache_file, cache')
    /\ last_op' = Op("clear", NoProject, "", Len(ArrayContent), cache)
    /\ UNCHANGED <<lock, thr, ttl_hours, now, written, notCache>>

StoreNext ==
    \/ \E pg \in Pages : Get(pg[1], pg[2])
    \/ \E pg \in Pages, d \in Datas : Set(pg[1], pg[2], d)
    \/ \E p \in Projects \cup {NoProject} : Clear(p)
    \/ CleanupExpired
    \/ Tick
    \/ Open
    \/ \E op \in {"get", "set", "clear", "cleanup_expired"} : CallOnList(op)
    \/ ClearOnList

(***************************************************************************)
(*               core/extractor.py: SeleniumEPlanExtractor                 *)
(***************************************************************************)

Workers == {1, 2}

\* MAX_RETRIES (setup_driver) and the max_retries of
\* click_on_login_with_microsoft.
MAX_RETRIES == 3
CLICK_MAX_RETRIES == 2
\* `exceptions=(WebDriverException, TimeoutException)` at both call sites.
DriverExceptions == {"WebDriverException", "TimeoutException"}

\* `arguments[0].scrollTop += 400`
ScrollIncrement == 400

\* `self.project_number`
EngineProject == "TEST001"

\* The page list of the project as the browser shows it: items in list
\* order, each with its data-name, whether a div of it reads "PLC-Diagram",
\* and what extract_current_plc_diagram_page finds once it is selected.
Item(name, plc, data) == [name |-> name, plc |-> plc, data |-> data]

PageA == [a \in {A_I2_0} |-> "Pump_On"]
PageB == [a \in {A_I10_0, A_I1_0} |->
             IF a = A_I10_0 THEN "Door_Closed" ELSE "Motor_Start"]
PageC == [a \in {A_I1_0, A_QW2_1} |->
             IF a = A_I1_0 THEN "Motor_Stop" ELSE "Valve_Open"]

\* The fourth item is a diagram page without a data-name.
EngineSite ==
    << Item("P1", TRUE, PageA), Item("T1", FALSE, EmptyData),
       Item("P2", TRUE, PageB), Item("", TRUE, PageA),
       Item("P3", TRUE, PageC) >>
GuiSite == << Item("P1", TRUE, PageA) >>
\* A short project whose first diagram page has no pair to extract.
ShortSite == << Item("P0", TRUE, EmptyData), Item("P1", TRUE, PageA) >>
EngineSites == {EngineSite, ShortSite}

\* Geometry of the cdk-virtual-scroll-viewport, in pixels.
Geometry == [item_height |-> 400, viewport |-> 800]

Max(a, b) == IF a >= b THEN a ELSE b

\* The largest scrollTop the browser accepts.
MaxScrollTop(items) ==
    Max(0, Len(items) * Geometry.item_height - Geometry.viewport)

\* The browser clamps `scrollTop += 400`.
ScrolledTop(items, top) == Min(top + ScrollIncrement, MaxScrollTop(items))

\* find_elements(By.TAG_NAME, "pv-page-list-item"): the items the virtual
\* list has realized at a scroll offset, as indices into the page list.
Realized(items, top) ==
    LET idx == {i \in 1..Len(items) :
                   /\ (i - 1) * Geometry.item_height < top + Geometry.viewport
                   /\ i * Geometry.item_height > top}
    IN  [k \in 1..Cardinality(idx) |->
            CHOOSE i \in idx : Cardinality({j \in idx : j < i}) = k - 1]

\* Python compares strings by code point.
Ascii ==
    [c \in {".", "0", "1", "2", "I", "Q", "W"} |->
        CASE c = "." -> 46 [] c = "0" -> 48 [] c = "1" -> 49 [] c = "2" -> 50
          [] c = "I" -> 73 [] c = "Q" -> 81 [] c = "W" -> 87]

\* a < b for two strings.
StrLess(a, b) ==
    \E k \in 1..(Min(Len(a), Len(b)) + 1) :
        /\ \A j \in 1..(k - 1) : a[j] = b[j]
        /\ \/ k > Len(a) /\ k <= Len(b)
           \/ k <= Len(a) /\ k <= Len(b) /\ Ascii[a[k]] < Ascii[b[k]]

\* `data.items()`: the pairs of one dict. Keys of a dict are distinct, so
\* the order in which they are listed does not show after the sort by key.
RECURSIVE DictItems(_)
DictItems(data) ==
    IF DOMAIN data = {} THEN << >>
    ELSE LET k == CHOOSE a \in DOMAIN data :
                      \A b \in DOMAIN data \ {a} : StrLess(a, b)
         IN  << <<k, data[k]>> >>
             \o DictItems([a \in DOMAIN data \ {k} |-> data[a]])

\* `for data in all_extracted: for key, value in data.items(): append`
RECURSIVE Flatten(_)
Flatten(all_extracted) ==
    IF all_extracted = << >> THEN << >>
    ELSE DictItems(Head(all_extracted)) \o Flatten(Tail(all_extracted))

\* `flat_data.sort(key=lambda x: x[0])`: a stable sort by address.
RECURSIVE InsertSorted(_, _)
InsertSorted(sorted, pair) ==
    IF sorted = << >> THEN << pair >>
    ELSE IF StrLess(pair[1], Head(sorted)[1])
         THEN << pair >> \o sorted
         ELSE << Head(sorted) >> \o InsertSorted(Tail(sorted), pair)

SortUnsorted(flat) == flat

RECURSIVE SortByAddress(_)
SortByAddress(flat) ==
    IF flat = << >> THEN << >>
    ELSE InsertSorted(SortByAddress(SubSeq(flat, 1, Len(flat) - 1)),
                      flat[Len(flat)])

\* The locals of extract_variables.
NoScroll ==
    [top |-> 0, last_height |-> -1, visible |-> << >>, i |-> 0,
     all_extracted |-> << >>, extracted_pages |-> << >>]

\* `page_name in extracted_pages`
NeverInExtractedPages(extracted_pages, page_name) == FALSE
InExtractedPages(extracted_pages, page_name) ==
    \E k \in 1..Len(extracted_pages) : extracted_pages[k] = page_name

\* `cache_manager = CacheManager() if use_cache else None` of the command
\* line, and `self.cache = cache_manager or CacheManager()` of __init__: a
\* CacheManager made without arguments is the one over CACHE_FILE.
CliCacheManager(use_cache) == IF use_cache THEN "CacheManager" ELSE "None"
SelfCache(cache_manager) ==
    IF cache_manager # "None" THEN cache_manager ELSE "CacheManager"

\* An extractor instance that no run drives yet (`__init__`).
FreshExtractor ==
    [prog |-> "none", pc |-> "unused", driver |-> 0, stop |-> FALSE,
     attempt |-> 0, ret |-> "None", scroll |-> NoScroll,
     output |-> << >>, written_file |-> FALSE, outcome |-> "running",
     error |-> "", open_clicked |-> FALSE,
     cause |-> "none", steps |-> << >>,
     use_cache |-> TRUE, cache |-> SelfCache(CliCacheManager(TRUE)),
     hits |-> {}, sets |-> {}, clicked |-> {},
     reported |-> [pages_extracted |-> 0, variables_found |-> 0],
     processed |-> << >>, visited |-> {}, item_failed |-> FALSE,
     heights |-> << >>, cleanups |-> 0,
     stop_pc |-> "none", stop_pages |-> 0, early |-> FALSE]

\* The RunState stage a position of a run belongs to.
Stage(pc) ==
    CASE pc \in {"setup_driver", "setup_sleep", "after_setup"} -> "DriverStarting"
      [] pc \in {"click", "click_sleep", "after_click"} -> "AwaitingLoginRedirect"
      [] pc \in {"login", "after_login"} -> "Authenticating"
      [] pc \in {"open_project", "after_open"} -> "OpeningProject"
      [] pc \in {"switch", "after_switch"} -> "SwitchingView"
      [] pc \in {"ev_begin", "ev_while", "ev_item", "ev_scroll", "ev_export",
                 "after_extract"} -> "Extracting"
      [] OTHER -> "none"

EngineIdle ==
    /\ ex = [w \in Workers |-> FreshExtractor]
    /\ browser = << >>
    /\ site = << >>
    /\ faults = 0

\* `request_stop`, called by the controller thread while the run goes on.
request_stop(w) ==
    [ex EXCEPT ![w].stop = TRUE,
               ![w].stop_pc = IF ex[w].stop_pc = "none"
                              THEN ex[w].pc ELSE @,
               ![w].stop_pages = IF ex[w].stop_pc = "none"
                                 THEN Len(ex[w].scroll.extracted_pages) ELSE @]

\* The browser or the site departs from the expected course, which it does
\* at most `faults` more times.
Fault == faults > 0 /\ faults' = faults - 1
NoFault == faults' = faults

RequestStop(w) ==
    /\ ex[w].prog = "run_extraction"
    /\ ex[w].pc \notin {"unused", "cleanup", "done"}
    /\ ~ex[w].stop
    /\ ex' = request_stop(w)
    /\ UNCHANGED <<browser, site, faults, cacheVars, retryVars, parseVars, guiVars>>

\* What the retry wrapper does with an exception of kind `kind` raised by
\* attempt `a` of a method wrapped with max_retries = n: sleep and call
\* again, or let it leave the method.
WrapperOnError(kind, a, n) ==
    IF Caught([kind |-> kind], DriverExceptions) /\ HasRetryLeft(a, n)
    THEN "sleep" ELSE "raise"

\* `setup_driver`, one attempt: webdriver.Chrome() fails, or the session
\* starts and set_page_load_timeout fails, or both succeed.
SetupDriver(w) ==
    /\ ex[w].pc = "setup_driver"
    /\ \/ /\ Fault
          /\ ex' = [ex EXCEPT
                ![w].pc = IF WrapperOnError("WebDriverException",
                                            ex[w].attempt, MAX_RETRIES) = "sleep"
                          THEN "setup_sleep" ELSE "after_setup",
                ![w].ret = "raise",
                ![w].error = "WebDriverException"]
          /\ UNCHANGED browser
       \/ /\ browser' = Append(browser, [owner |-> w, quit_calls |-> 0,
                                         closed |-> FALSE])
          /\ \/ /\ Fault
                /\ ex' = [ex EXCEPT
                      ![w].driver = Len(browser) + 1,
                      ![w].pc = IF WrapperOnError("WebDriverException",
                                     ex[w].attempt, MAX_RETRIES) = "sleep"
                                THEN "setup_sleep" ELSE "after_setup",
                      ![w].ret = "raise",
                      ![w].error = "WebDriverException"]
             \/ /\ NoFault
                /\ ex' = [ex EXCEPT
                      ![w].driver = Len(browser) + 1,
                      ![w].pc = "after_setup",
                      ![w].ret = "None"]
    /\ UNCHANGED <<site, cacheVars, retryVars, parseVars, guiVars>>

\* The wrapper's time.sleep(delay) before the next attempt of setup_driver.
SetupDriverBackoff(w) ==
    /\ ex[w].pc = "setup_sleep"
    /\ ex' = [ex EXCEPT ![w].pc = "setup_driver",
                        ![w].attempt = ex[w].attempt + 1]
    /\ UNCHANGED <<browser, site, faults, cacheVars, retryVars, parseVars, guiVars>>

\* `click_on_login_with_microsoft`, one attempt: driver.get raises, or the
\* polling loop sees the stop flag, finds and clicks the button, or gives up
\* after 15 polls.
ClickOnLogin(w) ==
    /\ ex[w].pc = "click"
    /\ IF ex[w].driver = 0
       THEN /\ ex' = [ex EXCEPT ![w].pc = "after_click", ![w].ret = "False"]
            /\ NoFault
       ELSE \/ /\ Fault
               /\ ex' = [ex EXCEPT
                     ![w].pc = IF WrapperOnError("TimeoutException",
                                    ex[w].attempt, CLICK_MAX_RETRIES) = "sleep"
                               THEN "click_sleep" ELSE "after_click",
                     ![w].ret = "raise",
                     ![w].error = "TimeoutException"]
            \/ /\ ex[w].stop
               /\ NoFault
               /\ ex' = [ex EXCEPT ![w].pc = "after_click", ![w].ret = "False",
                                   ![w].early = TRUE]
            \/ /\ ~ex[w].stop
               /\ NoFault
               /\ ex' = [ex EXCEPT ![w].pc = "after_click", ![w].ret = "True"]
            \/ /\ ~ex[w].stop
               /\ Fault
               /\ ex' = [ex EXCEPT ![w].pc = "after_click", ![w].ret = "False"]
    /\ UNCHANGED <<browser, site, cacheVars, retryVars, parseVars, guiVars>>

ClickBackoff(w) ==
    /\ ex[w].pc = "click_sleep"
    /\ ex' = [ex EXCEPT ![w].pc = "click", ![w].attempt = ex[w].attempt + 1]
    /\ UNCHANGED <<browser, site, faults, cacheVars, retryVars, parseVars, guiVars>>

\* `login`: every exception is caught and turned into False; the polls for
\* the input fields and the two checks after the submits return early once
\* the stop flag is set.
Login(w) ==
    /\ ex[w].pc = "login"
    /\ IF ex[w].driver = 0
       THEN /\ ex' = [ex EXCEPT ![w].pc = "after_login", ![w].ret = "False"]
            /\ NoFault
       ELSE \/ /\ ex[w].stop
               /\ NoFault
               /\ ex' = [ex EXCEPT ![w].pc = "after_login", ![w].ret = "False",
                                   ![w].early = TRUE]
            \/ /\ ~ex[w].stop
               /\ NoFault
               /\ ex' = [ex EXCEPT ![w].pc = "after_login", ![w].ret = "True"]
            \/ /\ ~ex[w].stop
               /\ Fault
               /\ ex' = [ex EXCEPT ![w].pc = "after_login", ![w].ret = "False"]
    /\ UNCHANGED <<browser, site, cacheVars, retryVars, parseVars, guiVars>>

\* `open_project`: the project is not found (False), or it is found and
\* clicked and an 'open' button is clicked or not; both of these return True.
OpenProject(w) ==
    /\ ex[w].pc = "open_project"
    /\ IF ex[w].driver = 0
       THEN /\ ex' = [ex EXCEPT ![w].pc = "after_open", ![w].ret = "False",
                                ![w].steps = Append(@, "open_project")]
            /\ NoFault
       ELSE \/ \* no selector finds the project, or a driver call raises
               /\ Fault
               /\ \E c \in {"project_not_found", "driver_error"} :
                      ex' = [ex EXCEPT ![w].pc = "after_open",
                                       ![w].ret = "False",
                                       ![w].cause = c,
                                       ![w].steps = Append(@, "open_project")]
            \/ \* no button reads "open", or none of them can be clicked
               /\ Fault
               /\ ex' = [ex EXCEPT ![w].pc = "after_open", ![w].ret = "True",
                                   ![w].open_clicked = FALSE,
                                   ![w].steps = Append(@, "open_project")]
            \/ /\ NoFault
               /\ ex' = [ex EXCEPT ![w].pc = "after_open", ![w].ret = "True",
                                   ![w].open_clicked = TRUE,
                                   ![w].steps = Append(@, "open_project")]
    /\ UNCHANGED <<browser, site, cacheVars, retryVars, parseVars, guiVars>>

\* `switch_to_list_view`: True with or without the marked elements, False
\* when a driver call raises.
SwitchToListView(w) ==
    /\ ex[w].pc = "switch"
    /\ IF ex[w].driver = 0
       THEN /\ ex' = [ex EXCEPT ![w].pc = "after_switch", ![w].ret = "False",
                                ![w].steps = Append(@, "switch_to_list_view")]
            /\ NoFault
       ELSE \/ /\ NoFault
               /\ ex' = [ex EXCEPT ![w].pc = "after_switch", ![w].ret = "True",
                                   ![w].steps = Append(@, "switch_to_list_view")]
            \/ /\ Fault
               /\ ex' = [ex EXCEPT ![w].pc = "after_switch", ![w].ret = "False",
                                   ![w].steps = Append(@, "switch_to_list_view")]
    /\ UNCHANGED <<browser, site, cacheVars, retryVars, parseVars, guiVars>>

\* `written`, the history of the store, after a set.
WrittenAfterSet(h, key, t, data) ==
    [k \in DOMAIN h \cup {key} |->
        IF k = key THEN [t |-> t, data |-> data] ELSE h[k]]

\* `extract_variables` up to the loop: the scroll container is looked up and
\* scrolled to the top.
EV_Begin(w) ==
    /\ ex[w].pc = "ev_begin"
    /\ IF ex[w].driver = 0
       THEN /\ ex' = [ex EXCEPT ![w].pc = "after_extract", ![w].ret = "False",
                                ![w].steps = Append(@, "extract_variables")]
            /\ NoFault
       ELSE \/ \* NoSuchElementException: the scroll container is missing
               /\ Fault
               /\ ex' = [ex EXCEPT ![w].pc = "after_extract", ![w].ret = "False",
                                   ![w].cause = "no_scroll_container",
                                   ![w].steps = Append(@, "extract_variables")]
            \/ \* find_element or the scroll to the top raises otherwise
               /\ Fault
               /\ ex' = [ex EXCEPT ![w].pc = "after_extract", ![w].ret = "raise",
                                   ![w].cause = "driver_error",
                                   ![w].steps = Append(@, "extract_variables")]
            \/ /\ NoFault
               /\ ex' = [ex EXCEPT ![w].pc = "ev_while", ![w].scroll = NoScroll,
                                   ![w].steps = Append(@, "extract_variables")]
    /\ UNCHANGED <<browser, site, cacheVars, retryVars, parseVars, guiVars>>

\* `while not self._check_stop(): visible_pages = find_elements(...)`
EV_While(w) ==
    /\ ex[w].pc = "ev_while"
    /\ IF ex[w].stop
       THEN /\ ex' = [ex EXCEPT ![w].pc = "ev_export"]
            /\ NoFault
       ELSE \/ /\ NoFault
               /\ ex' = [ex EXCEPT
                     ![w].pc = "ev_item",
                     ![w].scroll.visible = Realized(site, ex[w].scroll.top),
                     ![w].scroll.i = 1,
                     ![w].visited = @ \cup {ex[w].scroll.top}]
            \/ \* find_elements raises: the exception leaves extract_variables
               /\ Fault
               /\ ex' = [ex EXCEPT ![w].pc = "after_extract",
                                   ![w].ret = "raise",
                                   ![w].cause = "driver_error"]
    /\ UNCHANGED <<browser, site, cacheVars, retryVars, parseVars, guiVars>>

\* A loop that caches whatever the extraction gave.
CacheAlways(data) == TRUE

\* `if data:` before `self.cache.set(...)`: an empty dict is not cached.
ShouldCache(data) == data # EmptyData

\* A loop whose item errors leave extract_variables.
ItemErrorLeavesLoop == "after_extract"

\* The three `except` clauses around one item only log: the for loop goes
\* on with the next item.
AfterItemError == "ev_item"

\* One pass of `for i in range(len(visible_pages))`: the loop ends, or the
\* stop flag breaks it, or item i is handled.
EV_Item(w) ==
    LET sc == ex[w].scroll
        item == site[sc.visible[sc.i]]
        cached == GetResult(cache, EngineProject, item.name, now, ttl_hours)
        next == [sc EXCEPT !.i = sc.i + 1]
    IN
    /\ ex[w].pc = "ev_item"
    /\ IF sc.i > Len(sc.visible) \/ ex[w].stop
       THEN /\ ex' = [ex EXCEPT ![w].pc = "ev_scroll"]
            /\ NoFault
            /\ UNCHANGED cacheVars
       ELSE \/ \* the element is stale when it is fetched or read again
               /\ Fault
               /\ ex' = [ex EXCEPT ![w].scroll = next,
                                   ![w].pc = AfterItemError,
                                   ![w].item_failed = TRUE]
               /\ UNCHANGED cacheVars
            \/ \* not a PLC diagram, no name, or already in extracted_pages
               /\ NoFault
               /\ \/ ~item.plc
                  \/ item.name = ""
                  \/ InExtractedPages(sc.extracted_pages, item.name)
               /\ ex' = [ex EXCEPT ![w].scroll = next]
               /\ UNCHANGED cacheVars
            \/ \* `if cached_data:` the cached data is used
               /\ item.plc
               /\ item.name # ""
               /\ ~InExtractedPages(sc.extracted_pages, item.name)
               /\ cached # None /\ cached.value # EmptyData
               /\ NoFault
               /\ ex' = [ex EXCEPT
                    ![w].hits = @ \cup {item.name},
                    ![w].processed = Append(@, sc.visible[sc.i]),
                    ![w].scroll =
                    [next EXCEPT
                       !.all_extracted = Append(sc.all_extracted, cached.value),
                       !.extracted_pages = Append(sc.extracted_pages, item.name)]]
               /\ UNCHANGED cacheVars
            \/ \* page.click() raises after the name was recorded
               /\ item.plc
               /\ item.name # ""
               /\ ~InExtractedPages(sc.extracted_pages, item.name)
               /\ ~(cached # None /\ cached.value # EmptyData)
               /\ Fault
               /\ ex' = [ex EXCEPT
                    ![w].item_failed = TRUE,
                    ![w].clicked = @ \cup {item.name},
                    ![w].pc = AfterItemError,
                    ![w].scroll =
                    [next EXCEPT
                       !.extracted_pages = Append(sc.extracted_pages, item.name)]]
               /\ UNCHANGED cacheVars
            \/ \* the page is selected and extracted, and cached if not empty
               /\ item.plc
               /\ item.name # ""
               /\ ~InExtractedPages(sc.extracted_pages, item.name)
               /\ ~(cached # None /\ cached.value # EmptyData)
               /\ NoFault
               /\ ex' = [ex EXCEPT
                    ![w].sets = IF ShouldCache(item.data)
                                THEN @ \cup {item.name} ELSE @,
                    ![w].clicked = @ \cup {item.name},
                    ![w].processed = Append(@, sc.visible[sc.i]),
                    ![w].scroll =
                    [next EXCEPT
                       !.all_extracted = Append(sc.all_extracted, item.data),
                       !.extracted_pages = Append(sc.extracted_pages, item.name)]]
               /\ IF ShouldCache(item.data)
                  THEN /\ cache' = SetResult(cache, EngineProject, item.name,
                                             item.data, now)
                       /\ cache_file' = _save_cache(cache_file, cache')
                       /\ written' = WrittenAfterSet(written,
                              _generate_key(EngineProject, item.name), now,
                              item.data)
                       /\ UNCHANGED <<store, lock, thr, ttl_hours, now,
                                      last_op>>
                  ELSE UNCHANGED cacheVars
    /\ UNCHANGED <<browser, site, retryVars, parseVars, guiVars>>

\* A loop that takes every offset for the end of the list.
OffsetAlwaysUnchanged(new_height, last_height) == TRUE

\* `if new_height == last_height: break`
OffsetUnchanged(new_height, last_height) == new_height = last_height

\* `scrollTop += 400`, then the offset is read back and compared.
EV_Scroll(w) ==
    LET sc == ex[w].scroll
        new_height == ScrolledTop(site, sc.top)
    IN
    /\ ex[w].pc = "ev_scroll"
    /\ \/ /\ NoFault
          /\ ex' = [ex EXCEPT
                ![w].scroll = [sc EXCEPT !.top = new_height,
                                         !.last_height = new_height],
                ![w].heights = Append(@, new_height),
                ![w].pc = IF OffsetUnchanged(new_height, sc.last_height)
                          THEN "ev_export" ELSE "ev_while"]
       \/ \* execute_script raises: the exception leaves extract_variables
          /\ Fault
          /\ ex' = [ex EXCEPT ![w].pc = "after_extract",
                              ![w].ret = "raise",
                              ![w].cause = "driver_error"]
    /\ UNCHANGED <<browser, site, cacheVars, retryVars, parseVars, guiVars>>

\* The export: the pairs of all pages, sorted by address, are written out.
EV_Export(w) ==
    /\ ex[w].pc = "ev_export"
    /\ ex' = [ex EXCEPT
          ![w].output = SortByAddress(Flatten(ex[w].scroll.all_extracted)),
          ![w].written_file = TRUE,
          ![w].ret = "True",
          ![w].pc = "after_extract"]
    /\ UNCHANGED <<browser, site, faults, cacheVars, retryVars, parseVars, guiVars>>

\* A cleanup that keeps the reference when quit raises.
DriverKeptWhenQuitRaises(driver, quit_raised) ==
    IF quit_raised THEN driver ELSE 0

\* `finally: self._driver = None`, whether quit returned or raised.
DriverAfterQuit(driver, quit_raised) == 0

\* `cleanup`: quit is called on the session, if there is one, and may raise;
\* the exception is logged and the reference is dropped either way.
cleanup(w) ==
    /\ IF ex[w].driver = 0
       THEN /\ UNCHANGED <<browser, faults>>
            /\ ex' = [ex EXCEPT ![w].pc = "done", ![w].cleanups = @ + 1]
       ELSE \/ /\ NoFault
               /\ browser' = [browser EXCEPT
                     ![ex[w].driver].quit_calls = @ + 1,
                     ![ex[w].driver].closed = TRUE]
               /\ ex' = [ex EXCEPT
                     ![w].driver = DriverAfterQuit(ex[w].driver, FALSE),
                     ![w].pc = "done", ![w].cleanups = @ + 1]
            \/ /\ Fault
               /\ browser' = [browser EXCEPT
                     ![ex[w].driver].quit_calls = @ + 1]
               /\ ex' = [ex EXCEPT
                     ![w].driver = DriverAfterQuit(ex[w].driver, TRUE),
                     ![w].pc = "done", ![w].cleanups = @ + 1]
    /\ UNCHANGED <<site, cacheVars, retryVars, parseVars, guiVars>>

\* The call of cleanup that ends a run.
Cleanup(w) ==
    /\ ex[w].pc = "cleanup"
    /\ cleanup(w)

\* The owner of the extractor calls cleanup once more after the run.
CleanupAgain(w) ==
    /\ ex[w].prog = "run_extraction"
    /\ ex[w].pc = "done"
    /\ ex[w].cleanups < MaxCleanupCalls
    /\ cleanup(w)

\* The methods of one extractor instance.
Methods(w) ==
    \/ SetupDriver(w)
    \/ SetupDriverBackoff(w)
    \/ ClickOnLogin(w)
    \/ ClickBackoff(w)
    \/ Login(w)
    \/ OpenProject(w)
    \/ SwitchToListView(w)
    \/ EV_Begin(w)
    \/ EV_While(w)
    \/ EV_Item(w)
    \/ EV_Scroll(w)
    \/ EV_Export(w)

(***************************************************************************)
(*                 SeleniumEPlanExtractor.run_extraction                   *)
(***************************************************************************)

\* `if not self.<step>(): raise Exception(...)`, or the step itself raised.
StepFailedOnlyRaise(ret) == ret = "raise"
StepFailed(ret) == ret \in {"raise", "False"}

\* The extractor is made with the caller's cache manager or without one;
\* then `self._stop_requested = False`, and the first step.
RE_Start(w) ==
    /\ ex[w].prog = "none"
    /\ \E use_cache \in BOOLEAN :
           ex' = [ex EXCEPT ![w].prog = "run_extraction", ![w].stop = FALSE,
                            ![w].pc = "setup_driver", ![w].attempt = 0,
                            ![w].use_cache = use_cache,
                            ![w].cache = SelfCache(CliCacheManager(use_cache))]
    /\ UNCHANGED <<browser, site, faults, cacheVars, retryVars, parseVars, guiVars>>

\* The lines of run_extraction after a step has returned: an exception or a
\* False result is raised on, a set stop flag returns False, and otherwise
\* the next step is entered. All three leave through `finally`.
RE_After(w, at, next) ==
    /\ ex[w].prog = "run_extraction"
    /\ ex[w].pc = at
    /\ ex' = IF StepFailed(ex[w].ret)
             THEN [ex EXCEPT ![w].pc = "cleanup", ![w].outcome = "raise"]
             ELSE IF ex[w].stop
                  THEN [ex EXCEPT ![w].pc = "cleanup", ![w].outcome = "False"]
                  ELSE [ex EXCEPT ![w].pc = next, ![w].attempt = 0]
    /\ UNCHANGED <<browser, site, faults, cacheVars, retryVars, parseVars, guiVars>>

\* A run_extraction that goes from open_project straight to the extraction.
RE_AfterOpenToExtract(w) == RE_After(w, "after_open", "ev_begin")

RE_AfterSetup(w) == RE_After(w, "after_setup", "click")
RE_AfterClick(w) == RE_After(w, "after_click", "login")
RE_AfterLogin(w) == RE_After(w, "after_login", "open_project")
RE_AfterOpen(w) == RE_After(w, "after_open", "switch")
RE_AfterSwitch(w) == RE_After(w, "after_switch", "ev_begin")

\* `if not self.extract_variables(): raise ...` and `return True`.
RE_AfterExtract(w) ==
    /\ ex[w].prog = "run_extraction"
    /\ ex[w].pc = "after_extract"
    /\ ex' = [ex EXCEPT ![w].pc = "cleanup",
                        ![w].outcome = IF ex[w].ret = "True"
                                       THEN "True" ELSE "raise"]
    /\ UNCHANGED <<browser, site, faults, cacheVars, retryVars, parseVars, guiVars>>

\* `finally: self.cleanup()`
RE_Finally(w) ==
    /\ ex[w].prog = "run_extraction"
    /\ Cleanup(w)

EngineInit ==
    /\ ex = [w \in Workers |-> FreshExtractor]
    /\ browser = << >>
    /\ site \in EngineSites
    /\ faults = MaxFaults

\* The store an engine run starts with: empty, or holding page P2 from an
\* earlier run.
EngineCacheInit ==
    /\ \E c \in { [k \in {} |-> None],
                  SetResult([k \in {} |-> None], EngineProject, "P2", PageB, 0) } :
         /\ cache = c
         /\ cache_file = IF DOMAIN c = {} THEN MissingFile(TRUE)
                         ELSE Saved(c)
         /\ store = "dict"
         /\ written = [k \in DOMAIN c |-> [t |-> 0, data |-> c[k].data]]
    /\ ttl_hours = 1
    /\ lock = "free"
    /\ thr = [t \in Threads |-> IdleThread]
    /\ now = 0
    /\ last_op = NoOp

EngineNext ==
    \E w \in {1} :
        \/ RE_Start(w)
        \/ RequestStop(w)
        \/ Methods(w)
        \/ RE_AfterSetup(w)
        \/ RE_AfterClick(w)
        \/ RE_AfterLogin(w)
        \/ RE_AfterOpen(w)
        \/ RE_AfterSwitch(w)
        \/ RE_AfterExtract(w)
        \/ RE_Finally(w)
        \/ CleanupAgain(w)

(***************************************************************************)
(*         gui/app.py: EPlanExtractorGUI and its worker threads            *)
(***************************************************************************)

GuiIdle ==
    /\ is_running = FALSE
    /\ gui_extractor = 0

\* `_start_extraction`: nothing when a run is marked as going on; otherwise
\* the flag is set and a thread is started on _run_extraction.
StartExtraction ==
    /\ ~is_running
    /\ \E w \in Workers :
         /\ ex[w].prog = "none"
         /\ \A v \in Workers : v < w => ex[v].prog # "none"
         /\ ex' = [ex EXCEPT ![w].prog = "gui", ![w].pc = "gui_create"]
    /\ is_running' = TRUE
    /\ UNCHANGED <<gui_extractor, browser, site, faults, cacheVars, retryVars, parseVars>>

\* `_stop_extraction`: the flag is cleared and the extractor the GUI refers
\* to, if any, is asked to stop.
StopExtraction ==
    /\ is_running
    /\ is_running' = FALSE
    /\ ex' = IF gui_extractor # 0 THEN request_stop(gui_extractor) ELSE ex
    /\ UNCHANGED <<gui_extractor, browser, site, faults, cacheVars, retryVars, parseVars>>

\* `self._extractor = SeleniumEPlanExtractor(...)` on the worker thread.
GUI_Create(w) ==
    /\ ex[w].prog = "gui"
    /\ ex[w].pc = "gui_create"
    /\ gui_extractor' = w
    /\ ex' = [ex EXCEPT ![w].pc = "setup_driver", ![w].attempt = 0]
    /\ UNCHANGED <<is_running, browser, site, faults, cacheVars, retryVars, parseVars>>

\* The counters an extractor holds as attributes after its steps: no method
\* of SeleniumEPlanExtractor assigns one.
ExtractorStats == [name \in {} |-> 0]

\* getattr(object, name, default)
Getattr(attrs, name, default) ==
    IF name \in DOMAIN attrs THEN attrs[name] ELSE default

\* The lines of _run_extraction after a step has returned: an exception or a
\* False result goes to the except clause; where `check` is set the thread
\* returns when _is_running is no longer set; after the last step the
\* counts are read off the extractor and the run is a success.
GUI_After(w, at, next, check) ==
    /\ ex[w].prog = "gui"
    /\ ex[w].pc = at
    /\ ex' = IF StepFailed(ex[w].ret)
             THEN [ex EXCEPT ![w].pc = "gui_finally", ![w].outcome = "error"]
             ELSE IF check /\ ~is_running
                  THEN [ex EXCEPT ![w].pc = "gui_finally",
                                  ![w].outcome = "stopped"]
                  ELSE IF next = "success"
                       THEN [ex EXCEPT
                               ![w].pc = "gui_finally",
                               ![w].outcome = "success",
                               ![w].reported =
                                   [pages_extracted |->
                                        Getattr(ExtractorStats,
                                                "_pages_processed", 0),
                                    variables_found |->
                                        Getattr(ExtractorStats,
                                                "_variables_found", 0)]]
                       ELSE [ex EXCEPT ![w].pc = next, ![w].attempt = 0]
    /\ UNCHANGED <<guiVars, browser, site, faults, cacheVars, retryVars, parseVars>>

GUI_AfterSetup(w) == GUI_After(w, "after_setup", "click", FALSE)
GUI_AfterClick(w) == GUI_After(w, "after_click", "login", FALSE)
GUI_AfterLogin(w) == GUI_After(w, "after_login", "open_project", TRUE)
GUI_AfterOpen(w) == GUI_After(w, "after_open", "switch", FALSE)
GUI_AfterSwitch(w) == GUI_After(w, "after_switch", "ev_begin", TRUE)
GUI_AfterExtract(w) == GUI_After(w, "after_extract", "success", TRUE)

\* `finally:` the history record is saved, the flag and the reference are
\* cleared. The extractor's cleanup is not called.
GUI_Finally(w) ==
    /\ ex[w].prog = "gui"
    /\ ex[w].pc = "gui_finally"
    /\ ex' = [ex EXCEPT ![w].pc = "done"]
    /\ is_running' = FALSE
    /\ gui_extractor' = 0
    /\ UNCHANGED <<browser, site, faults, cacheVars, retryVars, parseVars>>

GuiInit ==
    /\ ex = [w \in Workers |-> FreshExtractor]
    /\ browser = << >>
    /\ site = GuiSite
    /\ faults = GuiFaults
    /\ GuiIdle

GuiNext ==
    \/ StartExtraction
    \/ StopExtraction
    \/ \E w \in Workers :
        \/ GUI_Create(w)
        \/ Methods(w)
        \/ GUI_AfterSetup(w)
        \/ GUI_AfterClick(w)
        \/ GUI_AfterLogin(w)
        \/ GUI_AfterOpen(w)
        \/ GUI_AfterSwitch(w)
        \/ GUI_AfterExtract(w)
        \/ GUI_Finally(w)

(***************************************************************************)
(*        CacheManager under concurrent callers: `with self._lock`         *)
(***************************************************************************)

\* `with self._lock:` is entered when no thread holds the lock.
LockNotHeeded(l) == TRUE
LockIsFree(l) == l = "free"

\* The calls each thread makes: the worker reads and writes pages, the
\* controller clears and cleans up.
CallsOf(t) ==
    IF t = "worker"
    THEN {[op |-> "get", project |-> pg[1], page |-> pg[2], data |-> EmptyData]
              : pg \in Pages}
         \cup {[op |-> "set", project |-> pg[1], page |-> pg[2], data |-> d]
              : pg \in Pages, d \in Datas}
    ELSE {[op |-> "clear", project |-> p, page |-> "", data |-> EmptyData]
              : p \in Projects \cup {NoProject}}
         \cup {[op |-> "cleanup_expired", project |-> NoProject, page |-> "",
                data |-> EmptyData]}

\* A thread calls a method of the store and comes to its `with` statement.
Call(t) ==
    /\ thr[t].pc = "idle"
    /\ thr[t].calls < MaxCalls
    /\ \E c \in CallsOf(t) :
         thr' = [thr EXCEPT ![t].pc = "wait", ![t].op = c.op,
                            ![t].project = c.project, ![t].page = c.page,
                            ![t].data = c.data, ![t].keys = {},
                            ![t].ret = None]
    /\ UNCHANGED <<cache, cache_file, store, lock, ttl_hours, now, last_op,
                   written, notCache>>

\* The lock is taken.
Acquire(t) ==
    /\ thr[t].pc = "wait"
    /\ LockIsFree(lock)
    /\ lock' = t
    /\ thr' = [thr EXCEPT ![t].pc = "locked", ![t].seen = cache]
    /\ UNCHANGED <<cache, cache_file, store, ttl_hours, now, last_op,
                   written, notCache>>

\* The first lines under the lock: get looks its entry up; set assigns the
\* entry; clear() replaces the mapping; clear(project) and cleanup_expired
\* build their list of keys.
Body(t) ==
    LET c == thr[t]
    IN
    /\ c.pc = "locked"
    /\ CASE c.op = "get" ->
              /\ thr' = [thr EXCEPT ![t].pc = "release",
                     ![t].ret = GetResult(cache, c.project, c.page, now,
                                          ttl_hours)]
              /\ UNCHANGED <<cache, written>>
         [] c.op = "set" ->
              /\ cache' = SetResult(cache, c.project, c.page, c.data, now)
              /\ written' = WrittenOf(cache')
              /\ thr' = [thr EXCEPT ![t].pc = "save"]
         [] c.op = "clear" /\ c.project = NoProject ->
              /\ cache' = [k \in {} |-> None]
              /\ written' = WrittenOf(cache')
              /\ thr' = [thr EXCEPT ![t].pc = "save",
                                    ![t].keys = DOMAIN cache]
         [] c.op = "clear" /\ c.project # NoProject ->
              /\ thr' = [thr EXCEPT ![t].pc = "delete",
                                    ![t].keys = ClearedKeys(cache, c.project)]
              /\ UNCHANGED <<cache, written>>
         [] c.op = "cleanup_expired" ->
              /\ thr' = [thr EXCEPT ![t].pc = "delete",
                     ![t].keys = ExpiredKeys(cache, now, ttl_hours)]
              /\ UNCHANGED <<cache, written>>
    /\ UNCHANGED <<cache_file, store, lock, ttl_hours, now, last_op, notCache>>

\* `for key in ...: del self._cache[key]`; cleanup_expired saves only when
\* it removed something.
Delete(t) ==
    LET c == thr[t]
    IN
    /\ c.pc = "delete"
    /\ cache' = Without(cache, c.keys)
    /\ written' = WrittenOf(cache')
    /\ thr' = [thr EXCEPT ![t].pc = IF c.op = "cleanup_expired" /\ c.keys = {}
                                    THEN "release" ELSE "save"]
    /\ UNCHANGED <<cache_file, store, lock, ttl_hours, now, last_op, notCache>>

\* `self._save_cache()`
Save(t) ==
    /\ thr[t].pc = "save"
    /\ cache_file' = _save_cache(cache_file, cache)
    /\ thr' = [thr EXCEPT ![t].pc = "release"]
    /\ UNCHANGED <<cache, store, lock, ttl_hours, now, last_op, written,
                   notCache>>

\* The `with` block is left and the method returns.
Release(t) ==
    LET c == thr[t]
        ret == IF c.op \in {"clear", "cleanup_expired"}
               THEN Cardinality(c.keys) ELSE c.ret
    IN
    /\ c.pc = "release"
    /\ lock' = "free"
    /\ last_op' = Op(c.op, c.project, c.page, ret, c.seen)
    /\ thr' = [thr EXCEPT ![t].pc = "idle", ![t].calls = c.calls + 1]
    /\ UNCHANGED <<cache, cache_file, store, ttl_hours, now, written, notCache>>

\* A store that holds one page written a TTL ago, so that it has expired,
\* and one page written just now.
LockInit ==
    LET c == SetResult(SetResult([k \in {} |-> None], "a", "c", Data1, 0),
                       "a:b", "c", Data2, TicksPerHour)
    IN  /\ cache = c
        /\ cache_file = Saved(c)
        /\ store = "dict"
        /\ lock = "free"
        /\ thr = [t \in Threads |-> IdleThread]
        /\ ttl_hours = 1
        /\ now = TicksPerHour
        /\ last_op = NoOp
        /\ written = WrittenOf(c)

LockNext ==
    \E t \in Threads :
        \/ Call(t)
        \/ Acquire(t)
        \/ Body(t)
        \/ Delete(t)
        \/ Save(t)
        \/ Release(t)

(***************************************************************************)
(*      core/extractor.py: extract_current_plc_diagram_page, per row       *)
(***************************************************************************)

\* The text of a node is a sequence of characters.  \w and \d of Python's re
\* over the characters the texts of the model are written in.
WordChars == {"I", "Q", "W", "A", "M", "i", "0", "1", "2", "_"}
Digits == {"0", "1", "2"}

IsWord(text, k) == k \in 1..Len(text) /\ text[k] \in WordChars

\* \b between the k-th and the (k+1)-th character; k = 0 is the start of the
\* text and k = Len(text) its end.
Boundary(text, k) == IsWord(text, k) # IsWord(text, k + 1)

\* \d+
AllDigits(s) == Len(s) >= 1 /\ \A i \in 1..Len(s) : s[i] \in Digits

\* [IQ]W?\d+\.\d+
BitAddress(s) ==
    /\ Len(s) >= 2
    /\ s[1] \in {"I", "Q"}
    /\ LET r == IF s[2] = "W" THEN SubSeq(s, 3, Len(s))
                ELSE SubSeq(s, 2, Len(s))
       IN  \E d \in 1..Len(r) :
               /\ r[d] = "."
               /\ AllDigits(SubSeq(r, 1, d - 1))
               /\ AllDigits(SubSeq(r, d + 1, Len(r)))

\* [IQ]W?\d+
WordAddressOptionalW(s) ==
    /\ Len(s) >= 2
    /\ s[1] \in {"I", "Q"}
    /\ AllDigits(SubSeq(s, IF s[2] = "W" THEN 3 ELSE 2, Len(s)))

\* [IQ]W\d+
WordAddress(s) ==
    /\ Len(s) >= 3
    /\ s[1] \in {"I", "Q"}
    /\ s[2] = "W"
    /\ AllDigits(SubSeq(s, 3, Len(s)))

\* The group of ADDRESS_PATTERN: one address token.
AddressToken(s) == BitAddress(s) \/ WordAddress(s)

\* ADDRESS_PATTERN matches in `text` from the i-th character on: \b, a token,
\* \b.  The regex engine backtracks over both alternatives and over the
\* lengths of the digit runs, so it matches when any token ends at a boundary.
MatchAt(text, i) ==
    /\ Boundary(text, i - 1)
    /\ \E j \in i..Len(text) :
           AddressToken(SubSeq(text, i, j)) /\ Boundary(text, j)

\* self._address_regex.search(text): a match anywhere in the text.
AddressSearch(text) == \E i \in 1..Len(text) : MatchAt(text, i)
\* re.match(self.ADDRESS_PATTERN, text): a match at the start of the text.
AddressMatch(text) == Len(text) >= 1 /\ MatchAt(text, 1)

\* The texts the nodes of a row carry.
EmptyText == << >>
Texts ==
    { EmptyText,
      <<"=", "I", "1", ".", "0">>,
      <<":", "M">>,
      <<"I", "1", ".", "0">>,
      <<"Q", "W", "2">>,
      <<"I", "1", ".", "0", "-", "A">>,
      <<"A", "1", ".", "0">>,
      <<"M">>,
      <<"M", " ", "I", "1", ".", "0">> }

Rows == UNION { [1..n -> Texts] : n \in 0..MaxNodes }

\* The <g> elements of a page: one row, or one row after a row that has
\* already put its pair into the page's mapping.
EarlierRows ==
    { << <<"I", "1", ".", "0">>, <<"M">> >>,
      << <<"A", "1", ".", "0">>, <<"Q", "W", "2">> >> }
PagesOfRows ==
    { <<r>> : r \in Rows } \cup { <<e, r>> : e \in EarlierRows, r \in Rows }

\* `if t.text` of the generator in has_address.
HasAddress(r) ==
    \E i \in 1..Len(r) : r[i] # EmptyText /\ AddressSearch(r[i])

\* `not text or text.startswith("=") or text.startswith(":")`
SkippedFirstChars == {"=", ":"}
SkippedOnlyEmpty(text) == text = EmptyText
Skipped(text) == text = EmptyText \/ text[1] \in SkippedFirstChars

\* The pair a row adds to the page, or None.
Pair(k, v) == [kind |-> "pair", key |-> k, value |-> v]

\* Python's truth value of `key` and of `value`.
Truthy(x) == x # None /\ x.value # EmptyText

\* The pattern put to one token, as test_patterns.py does with pattern.match.
TokenChars == {"I", "Q", "W", "A", "i", "0", "1", "."}
Tokens == UNION { [1..n -> TokenChars] : n \in 0..MaxTokenLen }

Verdict(t) ==
    [match |-> AddressMatch(t), search |-> AddressSearch(t),
     full |-> AddressToken(t)]

PatternIdle ==
    /\ token = << >>
    /\ matched = None

PatternInit ==
    /\ token \in Tokens
    /\ matched = None

\* self.pattern.match(addr)
MatchToken ==
    /\ matched = None
    /\ matched' = Some(Verdict(token))
    /\ UNCHANGED <<token, notPattern>>

PatternNext == MatchToken

\* The row parser when another component is under study.
RowsIdle ==
    /\ rows = << >>
    /\ extracted = << >>
    /\ row = << >>
    /\ pos = 0
    /\ row_key = None
    /\ row_value = None
    /\ ppc = "unused"
    /\ rows_seen = 0
    /\ out = None

ParseIdle == PatternIdle /\ RowsIdle

\* `extracted = {}` and the start of `for row in rows`.
ParseInit ==
    /\ PatternIdle
    /\ rows \in PagesOfRows
    /\ extracted = << >>
    /\ row = << >>
    /\ pos = 0
    /\ row_key = None
    /\ row_value = None
    /\ ppc = "rows"
    /\ rows_seen = 0
    /\ out = None

\* `for row in rows`: the next <g> of the page.  A row without an address is
\* passed over; otherwise key and value start as None.
NextRow ==
    /\ ppc = "rows"
    /\ rows_seen < Len(rows)
    /\ row' = rows[rows_seen + 1]
    /\ rows_seen' = rows_seen + 1
    /\ row_key' = None
    /\ row_value' = None
    /\ out' = None
    /\ IF HasAddress(row')
       THEN ppc' = "nodes" /\ pos' = 1
       ELSE ppc' = "rows" /\ pos' = 0
    /\ UNCHANGED <<rows, extracted, notParse>>

\* One iteration of `for text_obj in text_objects`.
NextNode ==
    /\ ppc = "nodes"
    /\ pos <= Len(row)
    /\ LET text == row[pos]
       IN  IF Skipped(text)
           THEN UNCHANGED <<row_key, row_value>>
           ELSE IF AddressMatch(text)
                THEN row_key' = Some(text) /\ UNCHANGED row_value
                ELSE row_value' = Some(text) /\ UNCHANGED row_key
    /\ pos' = pos + 1
    /\ UNCHANGED <<rows, extracted, row, ppc, rows_seen, out, notParse>>

\* A parser for which no key is in the mapping yet.
KeyNeverInExtracted(k, e) == TRUE

\* `key not in extracted`
KeyNotInExtracted(k, e) == k \notin DOMAIN e

\* `if key and value and key not in extracted: extracted[key] = value`
EndRow ==
    /\ ppc = "nodes"
    /\ pos > Len(row)
    /\ IF /\ Truthy(row_key)
          /\ Truthy(row_value)
          /\ KeyNotInExtracted(row_key.value, extracted)
       THEN /\ extracted' = [k \in DOMAIN extracted \cup {row_key.value} |->
                                IF k = row_key.value THEN row_value.value
                                ELSE extracted[k]]
            /\ out' = Pair(row_key.value, row_value.value)
       ELSE UNCHANGED <<extracted, out>>
    /\ ppc' = "rows"
    /\ UNCHANGED <<rows, row, pos, row_key, row_value, rows_seen, notParse>>

ParseNext ==
    \/ NextRow
    \/ NextNode
    \/ EndRow

(***************************************************************************)
(*                            Specifications                               *)
(***************************************************************************)

InitRetry == RetryInit /\ CacheIdle /\ EngineIdle /\ GuiIdle /\ ParseIdle
SpecRetry == InitRetry /\ [][RetryNext]_vars


InitCache == CacheInit /\ RetryIdle /\ EngineIdle /\ GuiIdle /\ ParseIdle
SpecCache == InitCache /\ [][CacheNext]_vars

InitStore == StoreInit /\ RetryIdle /\ EngineIdle /\ GuiIdle /\ ParseIdle
SpecStore == InitStore /\ [][StoreNext]_vars

InitLock == LockInit /\ RetryIdle /\ EngineIdle /\ GuiIdle /\ ParseIdle
SpecLock == InitLock /\ [][LockNext]_vars

\* The long project over an empty store or one that holds P2; the short
\* project, which has no page P2, over an empty store.
InitEngine ==
    /\ EngineInit /\ EngineCacheInit /\ RetryIdle /\ GuiIdle /\ ParseIdle
    /\ site = ShortSite => DOMAIN cache = {}
SpecEngine == InitEngine /\ [][EngineNext]_vars

\* The thread inside the scroll loop keeps being scheduled.
LoopStep(w) == EV_While(w) \/ EV_Item(w) \/ EV_Scroll(w)
SpecEngineLive == SpecEngine /\ WF_vars(LoopStep(1))

InitGui == GuiInit /\ CacheIdle /\ RetryIdle /\ ParseIdle
SpecGui == InitGui /\ [][GuiNext]_vars

\* One page's rows through the row parser.
InitParse == ParseInit /\ RetryIdle /\ CacheIdle /\ EngineIdle /\ GuiIdle
SpecParse == InitParse /\ [][ParseNext]_vars

\* The address pattern put to single tokens.
InitPattern ==
    PatternInit /\ RowsIdle /\ RetryIdle /\ CacheIdle /\ EngineIdle /\ GuiIdle
SpecPattern == InitPattern /\ [][PatternNext]_vars

(***************************************************************************)
(*                     Claims about retry_with_backoff                     *)
(***************************************************************************)
(*                 Claims about the run and its workers                    *)
(***************************************************************************)

\* How a finished run is reported: run_extraction returns True, returns
\* False or raises; _run_extraction records a success, an error message or
\* neither.
Status(e) ==
    CASE e.outcome \in {"True", "success"} -> "Completed"
      [] e.outcome \in {"False", "stopped"} -> "Cancelled"
      [] e.outcome \in {"raise", "error"} -> "Failed"
      [] OTHER -> "none"

Done(w) == ex[w].pc = "done"

NavigationStages ==
    {"DriverStarting", "AwaitingLoginRedirect", "Authenticating",
     "OpeningProject", "SwitchingView"}

LoopPositions == {"ev_while", "ev_item", "ev_scroll"}

SessionsOf(w) == {s \in 1..Len(browser) : browser[s].owner = w}

\* C1: A run that has ended has had quit called on every browser session it
\* acquired, on whichever path drove its steps and whatever its outcome.
C1_SessionsQuitAtEnd ==
    \A w \in Workers :
        Done(w) => \A s \in SessionsOf(w) : browser[s].quit_calls > 0

\* C2: A run that was asked to stop inside the scroll loop after k pages
\* processes no further page, exports exactly the sorted pairs of those k
\* pages, and ends as Cancelled.
C2_StopInLoopIsCancelledWithPartialResult ==
    \A w \in Workers :
        (Done(w) /\ ex[w].stop_pc \in LoopPositions) =>
            /\ Len(ex[w].scroll.extracted_pages) = ex[w].stop_pages
            /\ ex[w].output = SortByAddress(Flatten(ex[w].scroll.all_extracted))
            /\ Status(ex[w]) = "Cancelled"

\* C3: A run that was asked to stop in a navigation stage, and met no fault
\* of the browser or site, ends as Cancelled; and no run ends as Failed
\* after a step returned early because of the stop flag.
C3_StopNeverEndsAsFailed ==
    \A w \in Workers :
        Done(w) =>
            /\ (Stage(ex[w].stop_pc) \in NavigationStages /\ faults = MaxFaults)
                   => Status(ex[w]) = "Cancelled"
            /\ ex[w].early => Status(ex[w]) # "Failed"

\* C4: At most one worker thread of the GUI is executing at any time.
C4_AtMostOneWorkerInFlight ==
    Cardinality({w \in Workers : ex[w].prog = "gui" /\ ~Done(w)}) <= 1

(***************************************************************************)

\* The invocations of the wrapped function so far, in order.
CallEvents == SelectSeq(log, LAMBDA ev : ev.ev = "call")
NumCalls == Len(CallEvents)

\* An error of one of the call site's retryable kinds.
RetryableKind(e) == \E cls \in exceptions : IsSubclass(e.kind, cls)

IsRetryableFailure(ev) ==
    ev.ev = "call" /\ ev.outcome = "raise" /\ RetryableKind(ev.x)

EveryAttemptFailedRetryably ==
    \A i \in 1..Len(CallEvents) : IsRetryableFailure(CallEvents[i])

WrapperDone == wpc \in {"returned", "raised"}

\* C5: the wrapper invokes the operation at most max_retries + 1 times, and
\* exactly max_retries + 1 times when it ends after every attempt raised a
\* retryable error.
C5_AtMostNPlusOneCalls ==
    /\ NumCalls <= max_retries + 1
    /\ (WrapperDone /\ EveryAttemptFailedRetryably)
          => NumCalls = max_retries + 1

C5_Witness ==
    /\ wpc = "raised"
    /\ max_retries = 2
    /\ EveryAttemptFailedRetryably
    /\ NumCalls = 3

\* C6: when all max_retries + 1 attempts fail with retryable errors, the
\* error raised to the caller is the error of the last invocation, and
\* nothing is raised before that invocation was made.
C6_RaisesLastError ==
    (EveryAttemptFailedRetryably /\ result # None)
        => /\ NumCalls = max_retries + 1
           /\ result = [kind |-> "raise", error |-> CallEvents[NumCalls].x]

C6_Witness ==
    /\ wpc = "raised"
    /\ EveryAttemptFailedRetryably
    /\ NumCalls = 3
    /\ CallEvents[1].x # CallEvents[3].x
    /\ result = [kind |-> "raise", error |-> CallEvents[3].x]

\* C7: an attempt that raises an error outside the retryable kinds ends the
\* wrapper at once with that error: no later invocation, sleep or on_retry
\* call follows it, whatever retry budget is left.
C7_NonRetryablePropagates ==
    \A i \in 1..Len(log) :
        (log[i].ev = "call" /\ log[i].outcome = "raise"
                            /\ ~RetryableKind(log[i].x))
            => /\ i = Len(log)
               /\ wpc = "raised"
               /\ result = [kind |-> "raise", error |-> log[i].x]

C7_Witness ==
    /\ max_retries = 2
    /\ Len(log) = 1
    /\ log[1].ev = "call" /\ log[1].outcome = "raise"
    /\ ~RetryableKind(log[1].x)
    /\ wpc = "raised"

\* C8: when the j-th invocation is the first that succeeds, the wrapper
\* returns that invocation's value, has invoked the operation exactly j
\* times (the j - 1 earlier ones raised) and raises nothing.
C8_FirstSuccessReturns ==
    \A i \in 1..Len(log) :
        (log[i].ev = "call" /\ log[i].outcome = "return")
            => /\ i = Len(log)
               /\ wpc = "returned"
               /\ result = [kind |-> "return", value |-> log[i].x]
               /\ NumCalls = log[i].attempt + 1
               /\ NumCalls <= max_retries + 1
               /\ \A k \in 1..(NumCalls - 1) :
                      /\ CallEvents[k].outcome = "raise"
                      /\ CallEvents[k].attempt = k - 1

C8_Witness ==
    /\ wpc = "returned"
    /\ NumCalls = 3
    /\ max_retries = 2
    /\ result = [kind |-> "return", value |-> "success"]

\* The events that must follow a retryable failure of attempt a < max_retries.
ExpectedAfterFailure(e, a) ==
    (IF on_retry
     THEN << [ev |-> "on_retry", attempt |-> a, outcome |-> "called", x |-> e] >>
     ELSE << >>)
    \o << [ev |-> "sleep", attempt |-> a, outcome |-> "slept",
           x |-> IF base_delay * (2 ^ a) <= max_delay
                 THEN base_delay * (2 ^ a) ELSE max_delay] >>

\* C9: after a retryable failure of attempt a < max_retries the wrapper calls
\* on_retry(error, a) if supplied, sleeps exactly min(base_delay * 2^a,
\* max_delay) and then makes attempt a + 1; no sleep exceeds max_delay and
\* nothing is slept after the final attempt.
C9_BackoffSchedule ==
    /\ \A i \in 1..Len(log) :
         IsRetryableFailure(log[i]) =>
            LET a == log[i].attempt
                want == ExpectedAfterFailure(log[i].x, a)
            IN  IF a < max_retries
                THEN /\ \A k \in 1..Len(want) :
                            IF i + k <= Len(log)
                            THEN log[i + k] = want[k]
                            ELSE ~WrapperDone
                     /\ IF i + Len(want) + 1 <= Len(log)
                        THEN /\ log[i + Len(want) + 1].ev = "call"
                             /\ log[i + Len(want) + 1].attempt = a + 1
                        ELSE ~WrapperDone
                ELSE i = Len(log)
    /\ \A i \in 1..Len(log) : log[i].ev = "sleep" => log[i].x <= max_delay

C9_Witness ==
    /\ on_retry
    /\ Len(log) = 7
    /\ log[6].ev = "sleep" /\ log[6].x = max_delay
    /\ base_delay * 2 > max_delay
    /\ log[7].ev = "call" /\ log[7].attempt = 2 /\ log[7].outcome = "raise"
    /\ wpc = "raised"

(***************************************************************************)
(*                       Claims about CacheManager                         *)
(***************************************************************************)

\* C10: get(project, page) returns the stored data exactly when an entry
\* exists under the key of (project, page) and less than ttl has passed
\* since it was written (strict); a key never set, or removed since, returns
\* nothing.
C10_GetIffFresh ==
    last_op.op = "get" =>
        LET key == _generate_key(last_op.project, last_op.page)
        IN  IF key \in DOMAIN written
               /\ now - written[key].t < ttl_hours * TicksPerHour
            THEN last_op.ret = [kind |-> "value", value |-> written[key].data]
            ELSE last_op.ret = None

\* An entry read one tick before it expires, ...
C10_Witness ==
    /\ last_op.op = "get"
    /\ last_op.ret # None
    /\ LET key == _generate_key(last_op.project, last_op.page)
       IN  now - written[key].t = ttl_hours * TicksPerHour - 1

\* The key of the call recorded in last_op.
LastKey == _generate_key(last_op.project, last_op.page)

\* The age, at the current instant, of an entry.
Age(entry) == now - FromIsoformat(entry.timestamp)

\* C11: a get made within the TTL of the last set on its key, with nothing
\* removed in between, returns exactly the data that was set: the same
\* addresses with the same values.
C11_RoundTrip ==
    (/\ last_op.op = "get"
     /\ LastKey \in DOMAIN written
     /\ now - written[LastKey].t < ttl_hours * TicksPerHour) =>
        /\ last_op.ret # None
        /\ DOMAIN last_op.ret.value = DOMAIN written[LastKey].data
        /\ \A a \in DOMAIN written[LastKey].data :
               last_op.ret.value[a] = written[LastKey].data[a]

\* Data of two addresses read back after time has passed.
C11_Witness ==
    /\ last_op.op = "get"
    /\ last_op.ret = Some(Data2)
    /\ LastKey \in DOMAIN written
    /\ now > written[LastKey].t

\* C12: after set the key holds exactly the data given, with no address of
\* the data it replaced, stamped with the time of this set; the store has
\* one entry for the key and every other entry is as it was.
C12_LastWriteWins ==
    last_op.op = "set" =>
        /\ DOMAIN cache = DOMAIN last_op.before \cup {LastKey}
        /\ \A k \in DOMAIN last_op.before \ {LastKey} :
               cache[k] = last_op.before[k]
        /\ cache[LastKey].data = written[LastKey].data
        /\ DOMAIN cache[LastKey].data = DOMAIN written[LastKey].data
        /\ FromIsoformat(cache[LastKey].timestamp) = now
        /\ GetResult(cache, last_op.project, last_op.page, now, ttl_hours)
               = Some(written[LastKey].data)

\* Data of one address set, at a later time, over data of two addresses.
C12_Witness ==
    /\ last_op.op = "set"
    /\ LastKey \in DOMAIN last_op.before
    /\ last_op.before[LastKey].data = Data2
    /\ Age(last_op.before[LastKey]) > 0
    /\ cache[LastKey].data = Data1

\* C13: clear(project) removes exactly the entries whose project is the one
\* given and clear() removes them all; the entries left are unchanged and
\* the number removed is returned.
C13_ClearFrame ==
    last_op.op = "clear" =>
        LET b == last_op.before
            gone == IF last_op.project = NoProject
                    THEN DOMAIN b
                    ELSE {k \in DOMAIN b : b[k].project = last_op.project}
        IN  /\ DOMAIN cache = DOMAIN b \ gone
            /\ \A k \in DOMAIN cache : cache[k] = b[k]
            /\ last_op.ret = Cardinality(gone)

\* clear("a") on a store that also holds an entry of project "a:b".
C13_Witness ==
    /\ last_op.op = "clear"
    /\ last_op.project = "a"
    /\ last_op.ret = 1
    /\ \E k \in DOMAIN cache : cache[k].project = "a:b"

\* C14: cleanup_expired removes exactly the entries that get no longer
\* returns, those whose age has reached the TTL, leaves the others
\* unchanged and returns the number removed.
C14_CleanupRemovesNotFresh ==
    last_op.op = "cleanup_expired" =>
        LET b == last_op.before
            gone == {k \in DOMAIN b :
                        Age(b[k]) >= ttl_hours * TicksPerHour}
        IN  /\ DOMAIN cache = DOMAIN b \ gone
            /\ \A k \in DOMAIN cache : cache[k] = b[k]
            /\ last_op.ret = Cardinality(gone)

\* C14 as stated: the entries removed are those whose age exceeds the TTL.
C14_CleanupRemovesOlderThanTtl ==
    last_op.op = "cleanup_expired" =>
        LET b == last_op.before
            gone == {k \in DOMAIN b :
                        Age(b[k]) > ttl_hours * TicksPerHour}
        IN  /\ DOMAIN cache = DOMAIN b \ gone
            /\ \A k \in DOMAIN cache : cache[k] = b[k]
            /\ last_op.ret = Cardinality(gone)

\* An entry whose age is the TTL to the tick is removed, a younger one stays.
C14_Witness ==
    /\ last_op.op = "cleanup_expired"
    /\ \E k \in DOMAIN last_op.before \ DOMAIN cache :
           Age(last_op.before[k]) = ttl_hours * TicksPerHour
    /\ DOMAIN cache # {}

\* C15: when a set, or a clear or cleanup_expired that removed entries,
\* returns, the backing file holds exactly the in-memory mapping; and a
\* store created anew over the file returns for every page still within
\* the TTL what the store before it returned.
C15_WriteThroughDurable ==
    /\ (\/ last_op.op = "set" /\ last_op.ret = None
        \/ last_op.op \in {"clear", "cleanup_expired"}
             /\ DOMAIN cache # DOMAIN last_op.before) =>
           /\ cache_file.exists
           /\ cache_file.kind = "object"
           /\ JsonLoad(cache_file.text) = cache
    /\ last_op.op = "open" =>
           \A pg \in Pages :
               GetResult(last_op.before, pg[1], pg[2], now, ttl_hours) # None
                   => GetResult(cache, pg[1], pg[2], now, ttl_hours)
                        = GetResult(last_op.before, pg[1], pg[2], now,
                                    ttl_hours)

\* C17: a store opened over a missing, empty or damaged file is created
\* without an exception and is empty; its gets do not raise, and clear()
\* on it returns 0.
C17_DamagedFileGivesEmptyStore ==
    /\ (last_op.op = "open" /\ cache_file.kind # "object") =>
           /\ last_op.ret = None
           /\ store = "dict"
           /\ DOMAIN cache = {}
    /\ last_op.op = "get" => last_op.ret.kind # "raise"
    /\ (/\ last_op.op = "clear"
        /\ last_op.project = NoProject
        /\ DOMAIN last_op.before = {}) => last_op.ret = 0

\* The threads inside a `with self._lock` block.
InSection == {t \in Threads : thr[t].pc \in {"locked", "delete", "save", "release"}}

\* What the call of thread t does when nothing runs between its lines,
\* applied to the mapping it found when it took the lock.
SerialMapping(t) ==
    LET c == thr[t]
    IN  CASE c.op = "get" -> c.seen
          [] c.op = "set" -> SetResult(c.seen, c.project, c.page, c.data, now)
          [] c.op = "clear" -> Without(c.seen, ClearedKeys(c.seen, c.project))
          [] c.op = "cleanup_expired" ->
                 Without(c.seen, ExpiredKeys(c.seen, now, ttl_hours))

\* C16: calls of the two threads take effect one at a time: at most one
\* thread is under the lock; a call about to return leaves the mapping that
\* the same call gives when run alone, and the file written from it; and
\* whenever no thread is under the lock the file holds the mapping.
C16_CallsAreSerial ==
    /\ Cardinality(InSection) <= 1
    /\ \A t \in Threads :
           thr[t].pc = "release" =>
               /\ cache = SerialMapping(t)
               /\ cache # thr[t].seen => cache_file = Saved(cache)
    /\ lock = "free" => cache_file = Saved(cache)

\* The controller waits for the lock while the worker is between changing
\* the mapping and writing the file.
C16_Witness ==
    /\ thr["worker"].pc = "save"
    /\ thr["worker"].op = "set"
    /\ thr["controller"].pc = "wait"
    /\ thr["controller"].op = "clear"


(***************************************************************************)
(*                    Properties of the row parser                         *)
(***************************************************************************)

\* A row of the page has been dealt with: it was passed over for having no
\* address, or its nodes were gone through and the pair, if any, was added.
RowDone == ppc = "rows" /\ rows_seen > 0

\* The nodes the parser is to discard: empty, or beginning with '=' or ':'.
Discarded(text) == text = EmptyText \/ text[1] = "=" \/ text[1] = ":"
NotDiscarded(text) == ~Discarded(text)
Remaining(r) == SelectSeq(r, NotDiscarded)

\* C18: any key the row parser emits is, as a whole, one address token,
\* never a longer text that starts with or contains an address.
C18_KeyIsOneAddressToken ==
    (RowDone /\ out # None) => AddressToken(out.key)

\* C19: a row yields no pair when, after the empty nodes and the nodes
\* beginning with '=' or ':' are discarded, no node matches the address
\* grammar or no node fails to match it; discarded nodes are never the key
\* or the value; a row in which no node holds an address yields nothing.
C19_NoKeyOrNoValueYieldsNothing ==
    RowDone =>
        LET kept == Remaining(row)
        IN  /\ (\A i \in 1..Len(kept) : ~AddressMatch(kept[i])) => out = None
            /\ (\A i \in 1..Len(kept) : AddressMatch(kept[i])) => out = None
            /\ (\A i \in 1..Len(row) : ~AddressSearch(row[i])) => out = None
            /\ out # None =>
                   /\ \E i \in 1..Len(kept) : kept[i] = out.key
                   /\ \E i \in 1..Len(kept) : kept[i] = out.value

\* The row ['=I1.0', 'I1.0'] went through the node loop and yielded nothing.
C19_Witness ==
    /\ RowDone
    /\ row = << <<"=", "I", "1", ".", "0">>, <<"I", "1", ".", "0">> >>
    /\ pos = 3
    /\ row_key = Some(<<"I", "1", ".", "0">>)
    /\ row_value = None
    /\ out = None

\* C20: the emitted key is the first remaining node that matches the address
\* grammar at its start and the emitted value is the first remaining node
\* that does not; later nodes of the row never replace them.
C20_FirstKeyFirstValue ==
    (RowDone /\ out # None) =>
        LET kept == Remaining(row)
        IN  /\ \E i \in 1..Len(kept) :
                   /\ AddressMatch(kept[i])
                   /\ \A j \in 1..(i - 1) : ~AddressMatch(kept[j])
                   /\ out.key = kept[i]
            /\ \E i \in 1..Len(kept) :
                   /\ ~AddressMatch(kept[i])
                   /\ \A j \in 1..(i - 1) : AddressMatch(kept[j])
                   /\ out.value = kept[i]


(***************************************************************************)
(*                   Properties of the address pattern                     *)
(***************************************************************************)

\* The end of the run of digits of t that starts at position i (i - 1 when
\* t has no digit there).
RECURSIVE DigitRunEnd(_, _)
DigitRunEnd(t, i) ==
    IF i <= Len(t) /\ t[i] \in {"0", "1", "2"}
    THEN DigitRunEnd(t, i + 1)
    ELSE i - 1

\* t read from the left: prefix I or Q, W if there is one, digits, and a dot
\* with further digits if there is one.  The record tells whether the shape
\* was read to the end of t, and whether W and the bit index were there.
ReadShape(t) ==
    IF Len(t) = 0 \/ t[1] \notin {"I", "Q"}
    THEN [ok |-> FALSE, w |-> FALSE, bit |-> FALSE]
    ELSE LET w == Len(t) >= 2 /\ t[2] = "W"
             d1 == IF w THEN 3 ELSE 2
             e1 == DigitRunEnd(t, d1)
             dot == e1 < Len(t) /\ t[e1 + 1] = "."
             e2 == IF dot THEN DigitRunEnd(t, e1 + 2) ELSE e1
         IN  [ok |-> /\ e1 >= d1
                     /\ (dot => e2 >= e1 + 2)
                     /\ e2 = Len(t),
              w |-> w, bit |-> dot]

\* The shape as stated: the bit index is optional whether or not W is there.
StatedShape(t) == ReadShape(t).ok
\* The shape the pattern has: the bit index may be left out only after W.
PatternShape(t) == ReadShape(t).ok /\ (ReadShape(t).w \/ ReadShape(t).bit)

\* C21 as stated: a token is accepted exactly when it is I or Q, optional W,
\* digits and an optional bit index.
C21_AcceptedIffStatedShape ==
    matched # None => (matched.value.match <=> StatedShape(token))

\* C21: the pattern matches a whole token exactly when the token is I or Q,
\* optional W, digits and a bit index that may be left out only after W;
\* pattern.match accepts a token exactly when such an address stands at its
\* start and ends the token or is followed by a dot; tokens with any other
\* prefix, digit-only tokens and lower-case tokens are rejected.
C21_AcceptedIffPatternShape ==
    matched # None =>
        /\ matched.value.full <=> PatternShape(token)
        /\ matched.value.match <=>
               \E j \in 1..Len(token) :
                   /\ PatternShape(SubSeq(token, 1, j))
                   /\ (j = Len(token) \/ token[j + 1] = ".")
        /\ (token = << >> \/ token[1] \notin {"I", "Q"})
               => ~matched.value.match
        /\ (Len(token) >= 2 /\ token[1] = "I" /\ token[2] = "Q")
               => ~matched.value.match

\* 'I1' has the stated shape and is rejected by the pattern.
C21_Witness ==
    /\ matched # None
    /\ token = <<"I", "1">>
    /\ ~matched.value.match

(***************************************************************************)
(*                  Properties of the extraction output                    *)
(***************************************************************************)

\* How often a pair stands in a sequence of pairs, and how many of the
\* accumulated pages hold it.
PairCount(pairs, p) == Cardinality({i \in 1..Len(pairs) : pairs[i] = p})
PagesHolding(all_extracted, p) ==
    Cardinality({k \in 1..Len(all_extracted) :
                    /\ p[1] \in DOMAIN all_extracted[k]
                    /\ all_extracted[k][p[1]] = p[2]})

\* C22: the output written by a run holds exactly the pairs of the pages the
\* run accumulated, a pair once for every page that holds it (the same
\* address from different pages is kept), and is non-decreasing in address
\* under plain string order.
C22_OutputIsSortedFlattening ==
    \A w \in Workers :
        ex[w].written_file =>
            LET flat_data == ex[w].output
                all_extracted == ex[w].scroll.all_extracted
            IN  /\ \A i \in 1..Len(flat_data) :
                       PairCount(flat_data, flat_data[i])
                           = PagesHolding(all_extracted, flat_data[i])
                /\ \A k \in 1..Len(all_extracted) :
                       \A a \in DOMAIN all_extracted[k] :
                           PairCount(flat_data, <<a, all_extracted[k][a]>>) >= 1
                /\ \A i, j \in 1..Len(flat_data) :
                       i < j => ~StrLess(flat_data[j][1], flat_data[i][1])

\* All three diagram pages went into the output: I1.0 stands in it twice,
\* from two pages, and I10.0 stands before I2.0.
C22_Witness ==
    \E w \in Workers :
        /\ ex[w].written_file
        /\ Len(ex[w].scroll.all_extracted) = 3
        /\ ex[w].output =
               << <<A_I1_0, "Motor_Start">>, <<A_I1_0, "Motor_Stop">>,
                  <<A_I10_0, "Door_Closed">>, <<A_I2_0, "Pump_On">>,
                  <<A_QW2_1, "Valve_Open">> >>

(***************************************************************************)
(*                 Properties of the navigation failures                   *)
(***************************************************************************)

\* How often a run has invoked a step, and the step it invoked last.
StepCalls(w, step) ==
    Cardinality({i \in 1..Len(ex[w].steps) : ex[w].steps[i] = step})
LastStep(w) == ex[w].steps[Len(ex[w].steps)]

\* C23: when the project cannot be located or the scroll container is
\* missing, the failing step has been executed exactly once, no later step
\* runs (after a missing scroll container the scroll loop is not entered and
\* nothing is exported), and the run ends Failed.
C23_NotFoundFailsAtOnce ==
    \A w \in Workers :
        /\ ex[w].cause = "project_not_found" =>
               /\ StepCalls(w, "open_project") = 1
               /\ LastStep(w) = "open_project"
               /\ ex[w].pc \in {"after_open", "cleanup", "done"}
               /\ Done(w) => Status(ex[w]) = "Failed"
        /\ ex[w].cause = "no_scroll_container" =>
               /\ StepCalls(w, "extract_variables") = 1
               /\ LastStep(w) = "extract_variables"
               /\ ex[w].pc \in {"after_extract", "cleanup", "done"}
               /\ ex[w].scroll = NoScroll
               /\ ~ex[w].written_file
               /\ Done(w) => Status(ex[w]) = "Failed"

\* A run whose project was not found has ended, as Failed.
C23_Witness ==
    \E w \in Workers :
        /\ ex[w].cause = "project_not_found"
        /\ Done(w)
        /\ Status(ex[w]) = "Failed"

\* C24: a run never goes on to switch_to_list_view without the open control
\* having been clicked; when no open control can be located or clicked the
\* OpeningProject step fails.
C24_NoSwitchWithoutOpenClick ==
    \A w \in Workers :
        StepCalls(w, "switch_to_list_view") > 0 => ex[w].open_clicked

(***************************************************************************)
(*                   Properties of a run without cache                     *)
(***************************************************************************)

\* C25: a run started with the cache disabled (use_cache = False) reads no
\* page from the cache and writes no entry to it.
C25_NoCacheUseWhenDisabled ==
    \A w \in Workers :
        ~ex[w].use_cache => ex[w].hits = {} /\ ex[w].sets = {}

(***************************************************************************)
(*               Further properties of retry_with_backoff                  *)
(***************************************************************************)

\* The wrapper gave up: every one of its max_retries + 1 invocations raised
\* a retryable error.
Exhausted ==
    /\ wpc = "raised"
    /\ EveryAttemptFailedRetryably
    /\ NumCalls = max_retries + 1

\* What a caller would tell exhaustion by.
IsRetryExhausted(r) == r.kind = "RetryExhausted"

\* C26: the failure that surfaces when all attempts are exhausted is tagged
\* as RetryExhausted, and a failure that propagated on its first occurrence
\* is not.
C26_ExhaustionIsTagged ==
    wpc = "raised" => (Exhausted <=> IsRetryExhausted(result))

\* The event logged immediately before invocation k, the invocations being
\* numbered from 1, and the invocations that follow an earlier one.
SleptBefore(k) ==
    LET i == CHOOSE j \in 1..Len(log) :
                 log[j].ev = "call" /\ log[j].attempt = k - 1
    IN  log[i - 1]

Invocations == {k \in 1..NumCalls : k >= 2}

\* C27 as stated: the delay before invocation k is min(base * 2^(k-1), max).
C27_DelayBeforeInvocationAsStated ==
    \A k \in Invocations :
        /\ SleptBefore(k).ev = "sleep"
        /\ SleptBefore(k).x =
               IF base_delay * (2 ^ (k - 1)) <= max_delay
               THEN base_delay * (2 ^ (k - 1)) ELSE max_delay

\* C27: with the invocations of one wrapped call numbered 1..N+1, the delay
\* slept immediately before invocation k >= 2 is min(base * 2^(k-2), max):
\* base before the second invocation, doubled before each further one.
C27_DelayBeforeInvocation ==
    \A k \in Invocations :
        /\ SleptBefore(k).ev = "sleep"
        /\ SleptBefore(k).x =
               IF base_delay * (2 ^ (k - 2)) <= max_delay
               THEN base_delay * (2 ^ (k - 2)) ELSE max_delay

\* Three invocations with base 1 and max 3: 1 was slept before the second
\* and 2 before the third.
C27_Witness ==
    /\ base_delay = 1
    /\ max_delay = 3
    /\ NumCalls = 3
    /\ SleptBefore(2).x = 1
    /\ SleptBefore(3).x = 2

(***************************************************************************)
(*                    Properties of the run's report                       *)
(***************************************************************************)

\* C28: a run that ends Completed reports the number of pages the scroll
\* loop processed and the number of pairs in the result.
C28_CompletedReportsCounts ==
    \A w \in Workers :
        (Done(w) /\ Status(ex[w]) = "Completed") =>
            /\ ex[w].reported.pages_extracted
                   = Len(ex[w].scroll.extracted_pages)
            /\ ex[w].reported.variables_found = Len(ex[w].output)

(***************************************************************************)
(*                    Properties of the scroll loop                        *)
(***************************************************************************)

\* How often the loop has processed (taken from the cache, or clicked and
\* extracted) the k-th item of the page list, and a page name.
TimesProcessed(w, k) ==
    Cardinality({n \in 1..Len(ex[w].processed) : ex[w].processed[n] = k})
TimesNameProcessed(w, name) ==
    Cardinality({n \in 1..Len(ex[w].processed) :
                    site[ex[w].processed[n]].name = name})

\* The diagram pages realized at a scroll position the loop has visited.
RealizedDiagrams(w) ==
    {k \in 1..Len(site) :
        /\ site[k].plc
        /\ \E top \in ex[w].visited :
               \E n \in 1..Len(Realized(site, top)) :
                   Realized(site, top)[n] = k}

\* The loop has been left with no item failure and no stop request.
LoopLeftUndisturbed(w) ==
    /\ ex[w].pc \in {"ev_export", "after_extract", "cleanup", "done"}
    /\ ex[w].visited # {}
    /\ ~ex[w].item_failed
    /\ ~ex[w].stop

\* C29 as stated: each page name is processed at most once, and without item
\* failure and stop every diagram page realized at a visited scroll position
\* is processed exactly once.
C29_EveryDiagramOnce ==
    \A w \in Workers :
        /\ \A k \in 1..Len(site) : TimesNameProcessed(w, site[k].name) <= 1
        /\ LoopLeftUndisturbed(w) =>
               \A k \in RealizedDiagrams(w) : TimesProcessed(w, k) = 1

\* C29: each page name is processed at most once, and without item failure
\* and stop every diagram page with a non-empty name that is realized at a
\* visited scroll position is processed exactly once; a diagram page without
\* a name is never processed.
C29_EveryNamedDiagramOnce ==
    \A w \in Workers :
        /\ \A k \in 1..Len(site) : TimesNameProcessed(w, site[k].name) <= 1
        /\ \A k \in 1..Len(site) :
               site[k].name = "" => TimesProcessed(w, k) = 0
        /\ LoopLeftUndisturbed(w) =>
               \A k \in RealizedDiagrams(w) :
                   site[k].name # "" => TimesProcessed(w, k) = 1

\* The loop went through all four scroll positions undisturbed, every page
\* being realized at two of them, and processed P1, P2 and P3 once each.
C29_Witness ==
    \E w \in Workers :
        /\ LoopLeftUndisturbed(w)
        /\ Cardinality(ex[w].visited) = 4
        /\ RealizedDiagrams(w) = {1, 3, 4, 5}
        /\ Len(ex[w].processed) = 3

\* The scroll loop is running, and it has been left for the export.
InLoop(w) == ex[w].pc \in LoopPositions
LoopExited(w) == ex[w].pc = "ev_export"

\* The offset read after the latest scroll equals the one read after the
\* scroll of the iteration before (-1 before the first iteration).
OffsetStoodStill(w) ==
    LET h == ex[w].heights
    IN  /\ Len(h) >= 1
        /\ h[Len(h)] = IF Len(h) >= 2 THEN h[Len(h) - 1] ELSE -1

\* C30, exits: the loop is left for the export only when the offset read
\* after a forward scroll equals the offset read after the previous
\* iteration's scroll, or a stop is requested; it goes round again only
\* when the offset has advanced; and when it is left with no stop requested
\* the items realized at the final offset have all been gone through.
ExitOnlyWhenStillOrStopped ==
    \A w \in Workers :
        /\ LoopExited(w) => (OffsetStoodStill(w) \/ ex[w].stop)
        /\ (ex[w].pc = "ev_while" /\ ex[w].heights # << >>)
               => ~OffsetStoodStill(w)
        /\ (LoopExited(w) /\ ~ex[w].stop) =>
               /\ ex[w].scroll.visible = Realized(site, ex[w].scroll.top)
               /\ ex[w].scroll.i > Len(ex[w].scroll.visible)
               /\ ex[w].scroll.top \in ex[w].visited

\* A step of worker w that takes it out of the scroll loop.
LeavesLoop(w) == InLoop(w) /\ ~InLoop(w)'

\* A driver call of the loop itself (find_elements, execute_script) raised
\* and the exception left extract_variables.
LoopRaised(w) == ex[w].pc = "after_extract" /\ ex[w].ret = "raise"

\* C30 as stated: the scroll loop exits exactly when the offset read after a
\* forward scroll equals the offset read after the previous iteration's
\* scroll, or when a stop is requested, and for no other reason; over a
\* container whose offset is bounded the loop, once entered, is left after
\* finitely many iterations; and the items realized at the final offset have
\* been examined before it exits.
C30_LeavesForNoOtherReason ==
    /\ [][\A w \in Workers :
             LeavesLoop(w) => (OffsetStoodStill(w)' \/ ex[w].stop)]_vars
    /\ [] ExitOnlyWhenStillOrStopped
    /\ \A w \in {1} : InLoop(w) ~> ~InLoop(w)

\* C30: the scroll loop is left for the export exactly when the offset read
\* after a forward scroll equals the offset read after the previous
\* iteration's scroll, or when a stop is requested; the only other way out
\* is an exception raised by a driver call of the loop itself, which ends
\* extract_variables without an export; over a container whose offset is
\* bounded the loop, once entered, is left after finitely many iterations;
\* and the items realized at the final offset have been examined before the
\* loop is left for the export with no stop requested.
C30_LoopExitsAndTerminates ==
    /\ [][\A w \in Workers :
             LeavesLoop(w) =>
                 \/ LoopExited(w)' /\ (OffsetStoodStill(w)' \/ ex[w].stop)
                 \/ LoopRaised(w)']_vars
    /\ [] ExitOnlyWhenStillOrStopped
    /\ \A w \in {1} : InLoop(w) ~> ~InLoop(w)

\* The loop ran to the bottom of the list undisturbed: the offset 1200 was
\* read twice in a row and the loop was left for the export.
C30_Witness ==
    \E w \in Workers :
        /\ LoopExited(w)
        /\ ~ex[w].stop
        /\ ex[w].heights = <<400, 800, 1200, 1200>>

(***************************************************************************)
(*                   Claims about the order of the steps                   *)
(***************************************************************************)

\* The place of a position in the order driver start, SSO redirect,
\* authentication, open project, switch to list view, extraction; 0 for a
\* position outside the steps.
StageNo(pc) ==
    CASE Stage(pc) = "DriverStarting" -> 1
      [] Stage(pc) = "AwaitingLoginRedirect" -> 2
      [] Stage(pc) = "Authenticating" -> 3
      [] Stage(pc) = "OpeningProject" -> 4
      [] Stage(pc) = "SwitchingView" -> 5
      [] Stage(pc) = "Extracting" -> 6
      [] OTHER -> 0

\* The positions at which a step has returned to its caller.
ReturnPositions ==
    {"after_setup", "after_click", "after_login", "after_open",
     "after_switch", "after_extract"}

\* The step of worker w has returned and reported success: setup_driver
\* returned, any other step returned True.
ReportedSuccess(w) ==
    /\ ex[w].pc \in ReturnPositions
    /\ \/ ex[w].ret = "True"
       \/ ex[w].pc = "after_setup" /\ ex[w].ret = "None"

\* The step of worker w has returned and reported failure.
ReportedFailure(w) == ex[w].pc \in ReturnPositions /\ ~ReportedSuccess(w)

\* C31: navigation steps run strictly in the order driver start, SSO
\* redirect, authentication, open project, switch to list view, extraction:
\* a step begins only after the previous step has reported success, and once
\* a step has failed no later step executes and no completed step is
\* executed again in that run.
C31_StepsInOrder ==
    [][\A w \in Workers :
         LET a == StageNo(ex[w].pc)
             b == StageNo(ex'[w].pc)
         IN  /\ b > 0 =>
                   \/ b = a
                   \/ b = a + 1 /\ (a > 0 => ReportedSuccess(w))
             /\ (a = 0 /\ b > 0) => ex[w].pc \in {"unused", "gui_create"}
             /\ ReportedFailure(w) => (b = 0 \/ ex'[w].pc = ex[w].pc)
             /\ (ex[w].pc \in ReturnPositions /\ b = a)
                   => ex'[w].pc = ex[w].pc]_vars

\* switch_to_list_view reported failure after open_project had succeeded,
\* and the run has ended without an extraction.
C31_Witness ==
    \E w \in Workers :
        /\ Done(w)
        /\ ex[w].steps = <<"open_project", "switch_to_list_view">>
        /\ ex[w].ret = "False"
        /\ ex[w].outcome = "raise"

(***************************************************************************)
(*                    Claims about per-item failures                       *)
(***************************************************************************)

\* A step in which the handling of one page-list item of worker w fails: the
\* element is stale, or the click on it is intercepted.
ItemFails(w) ==
    /\ ex[w].pc = "ev_item"
    /\ faults' < faults
    /\ ex'[w] # ex[w]

\* The pairs of every page handled without failure are in the export.
ExportHoldsProcessed(w) ==
    \A k \in 1..Len(ex[w].scroll.all_extracted) :
        \A a \in DOMAIN ex[w].scroll.all_extracted[k] :
            \E j \in 1..Len(ex[w].output) :
                ex[w].output[j] = <<a, ex[w].scroll.all_extracted[k][a]>>

\* C32: a stale-element or click-intercepted failure while one page-list
\* item is processed aborts only that item: the loop goes on with the next
\* item and later scroll iterations, the extraction step still finishes
\* successfully with the data of the other pages, and the failure never
\* invokes the retry policy and never makes the run Failed.
C32_ItemFailureStaysLocal ==
    /\ [][\A w \in Workers :
             ItemFails(w) =>
                 /\ ex'[w].pc = "ev_item"
                 /\ ex'[w].scroll.i = ex[w].scroll.i + 1
                 /\ ex'[w].scroll.all_extracted = ex[w].scroll.all_extracted
                 /\ ex'[w].attempt = ex[w].attempt
                 /\ ex'[w].ret = ex[w].ret
                 /\ ex'[w].outcome = "running"]_vars
    /\ [] \A w \in Workers :
             (ex[w].item_failed /\ ex[w].cause = "none") =>
                 /\ ex[w].pc = "after_extract" =>
                        /\ ex[w].ret = "True"
                        /\ ex[w].written_file
                        /\ ExportHoldsProcessed(w)
                 /\ Done(w) => ex[w].outcome = "True"

\* An item failed, the loop went on to the bottom of the list, and the run
\* has ended successfully with the pairs of other pages in the export.
C32_Witness ==
    \E w \in Workers :
        /\ Done(w)
        /\ ex[w].item_failed
        /\ ~ex[w].stop
        /\ ex[w].outcome = "True"
        /\ ex[w].heights = <<400, 800, 1200, 1200>>
        /\ Len(ex[w].output) >= 2

\* The scroll offsets among those visited at which item k was realized.
VisitsRealizing(w, k) ==
    {top \in ex[w].visited :
        \E j \in 1..Len(Realized(site, top)) : Realized(site, top)[j] = k}

\* The page of item k has had its data added to the result.
InResult(w, k) == \E j \in 1..Len(ex[w].processed) : ex[w].processed[j] = k

\* C33: a page whose processing was aborted by a transient per-item failure
\* (stale element, intercepted click) is not treated as processed: its name
\* is not among the processed names, and when a later scroll iteration
\* realizes the page again it is attempted again, so that after a single
\* failure every named diagram page that was realized at two visited
\* offsets is in the result when the loop ends undisturbed.
C33_FailedPageIsAttemptedAgain ==
    \A w \in Workers :
        /\ \A n \in 1..Len(ex[w].scroll.extracted_pages) :
               \E k \in 1..Len(site) :
                   /\ site[k].name = ex[w].scroll.extracted_pages[n]
                   /\ InResult(w, k)
        /\ (LoopExited(w) /\ ~ex[w].stop /\ faults >= MaxFaults - 1) =>
               \A k \in 1..Len(site) :
                   (/\ site[k].plc
                    /\ site[k].name # ""
                    /\ Cardinality(VisitsRealizing(w, k)) >= 2)
                       => InResult(w, k)

(***************************************************************************)
(*                 Claims about the loop's use of the cache                *)
(***************************************************************************)

\* The loop of worker w is about to look item `item` up in the cache: the
\* item is a named diagram page that is not in extracted_pages.
AtLookup(w) ==
    LET sc == ex[w].scroll
    IN  /\ ex[w].pc = "ev_item"
        /\ sc.i <= Len(sc.visible)
        /\ ~ex[w].stop
        /\ site[sc.visible[sc.i]].plc
        /\ site[sc.visible[sc.i]].name # ""
        /\ \A n \in 1..Len(sc.extracted_pages) :
               sc.extracted_pages[n] # site[sc.visible[sc.i]].name

\* The item worker w is at, and what the cache returns for it.
ItemAt(w) == site[ex[w].scroll.visible[ex[w].scroll.i]]
LookedUp(w) == GetResult(cache, EngineProject, ItemAt(w).name, now, ttl_hours)

\* A step of worker w that handles the item it is at, the page-list element
\* not being stale.
HandlesItem(w) ==
    /\ AtLookup(w)
    /\ ex'[w].scroll.i = ex[w].scroll.i + 1
    /\ ex'[w].scroll.extracted_pages # ex[w].scroll.extracted_pages

\* C34: for a page for which get returns valid data the loop adds that data
\* to the result and marks the page processed without clicking the item,
\* without running the DOM extraction and without calling set for it; on a
\* miss with a non-empty extraction result the loop calls set exactly once
\* for that page; and it never writes an empty mapping to the cache.
C34_HitTouchesNothingMissSetsOnce ==
    /\ [][\A w \in {1} :
             /\ (HandlesItem(w) /\ LookedUp(w) # None) =>
                    /\ ex'[w].scroll.all_extracted =
                           Append(ex[w].scroll.all_extracted, LookedUp(w).value)
                    /\ ex'[w].scroll.extracted_pages =
                           Append(ex[w].scroll.extracted_pages, ItemAt(w).name)
                    /\ ex'[w].clicked = ex[w].clicked
                    /\ ex'[w].sets = ex[w].sets
                    /\ cache' = cache
                    /\ cache_file' = cache_file
                    /\ faults' = faults
             /\ (HandlesItem(w) /\ LookedUp(w) = None /\ faults' = faults) =>
                    /\ ItemAt(w).name \in ex'[w].clicked
                    /\ ex'[w].scroll.all_extracted =
                           Append(ex[w].scroll.all_extracted, ItemAt(w).data)
                    /\ IF ItemAt(w).data # EmptyData
                       THEN /\ ItemAt(w).name \notin ex[w].sets
                            /\ cache' = SetResult(cache, EngineProject,
                                                  ItemAt(w).name,
                                                  ItemAt(w).data, now)
                            /\ cache' # cache
                       ELSE cache' = cache /\ cache_file' = cache_file
             /\ cache' # cache => (HandlesItem(w) /\ LookedUp(w) = None)]_vars
    /\ [] \A k \in DOMAIN cache : cache[k].data # EmptyData

\* Page P2 came from the cache and was not clicked, page P1 was extracted
\* and cached, in one run.
C34_Witness ==
    \E w \in Workers :
        /\ "P2" \in ex[w].hits
        /\ "P2" \notin ex[w].clicked
        /\ "P1" \in ex[w].sets
        /\ "P1" \in ex[w].clicked
        /\ Len(ex[w].scroll.all_extracted) >= 2

(***************************************************************************)
(*               Claims about the mapping of one page                      *)
(***************************************************************************)

\* The texts of row r that take part, and among them the addresses and the
\* others.
Taking(r) == SelectSeq(r, NotDiscarded)
IsAddressText(text) == AddressMatch(text)
IsOtherText(text) == ~AddressMatch(text)

\* Row r produces a pair: it holds an address somewhere, and among its
\* texts that take part there is one that starts with an address and one
\* that does not.
Produces(r) ==
    /\ \E i \in 1..Len(r) : r[i] # EmptyText /\ AddressSearch(r[i])
    /\ SelectSeq(Taking(r), IsAddressText) # << >>
    /\ SelectSeq(Taking(r), IsOtherText) # << >>

\* The key and the value of the pair row r produces.
KeyOf(r) ==
    LET ks == SelectSeq(Taking(r), IsAddressText) IN ks[Len(ks)]
ValueOf(r) ==
    LET vs == SelectSeq(Taking(r), IsOtherText) IN vs[Len(vs)]

\* The rows of the page gone through so far.
RowsDone == IF ppc = "rows" THEN rows_seen ELSE rows_seen - 1

\* C35: within one page extraction the mapping has unique keys and each key
\* holds the value of the first row, in document order, that produced that
\* key; a later row of the same page with the same key never overwrites or
\* alters the stored value.
C35_FirstRowWins ==
    /\ [][\A k \in DOMAIN extracted :
             k \in DOMAIN extracted' /\ extracted'[k] = extracted[k]]_vars
    /\ [] (ppc \in {"rows", "nodes"} =>
             /\ DOMAIN extracted =
                    {KeyOf(rows[i]) : i \in {j \in 1..RowsDone : Produces(rows[j])}}
             /\ \A k \in DOMAIN extracted :
                    \E i \in 1..RowsDone :
                        /\ Produces(rows[i]) /\ KeyOf(rows[i]) = k
                        /\ extracted[k] = ValueOf(rows[i])
                        /\ \A j \in 1..(i - 1) :
                               ~(Produces(rows[j]) /\ KeyOf(rows[j]) = k))

\* The second row of the page produced the key I1.0 again, with another
\* value, and the mapping still holds the value of the first row.
C35_Witness ==
    /\ ppc = "rows"
    /\ rows_seen = 2
    /\ Produces(rows[1]) /\ Produces(rows[2])
    /\ KeyOf(rows[1]) = KeyOf(rows[2])
    /\ ValueOf(rows[1]) # ValueOf(rows[2])
    /\ extracted = [k \in {KeyOf(rows[1])} |-> ValueOf(rows[1])]

(***************************************************************************)
(*                  Claims about get and about isolation                   *)
(***************************************************************************)

\* The entry a call made with (project, page) addresses.
KeyOfCall(op) == _generate_key(op.project, op.page)

\* C36: get never changes the store: over any get call, whether the entry
\* is absent, fresh or expired, the in-memory mapping and the backing file
\* stay what they were; an expired entry stays stored until set, clear or
\* cleanup_expired acts on it.
C36_GetChangesNothing ==
    /\ [][last_op'.op = "get" =>
             /\ cache' = cache
             /\ cache_file' = cache_file]_vars
    /\ [][\A k \in DOMAIN cache :
             (k \notin DOMAIN cache' \/ cache'[k] # cache[k])
                 => last_op'.op \in {"set", "clear", "cleanup_expired"}]_vars
    /\ [] (last_op.op = "get" =>
             /\ cache = last_op.before
             /\ cache_file.text = JsonDump(cache))

\* A get has just found an expired entry: it returned nothing and the entry
\* is still stored.
C36_Witness ==
    /\ last_op.op = "get"
    /\ last_op.ret = None
    /\ KeyOfCall(last_op) \in DOMAIN cache
    /\ ~_is_entry_valid(cache[KeyOfCall(last_op)], now, ttl_hours)

(***************************************************************************)
(*                       Claims about cancellation                         *)
(***************************************************************************)

\* Steps of worker w that start something new against the browser: the
\* wrapper's sleep ends and the wrapped step is called again, a scroll
\* iteration begins with find_elements, an item is looked up, clicked and
\* extracted.
RetriesStep(w) ==
    \/ ex[w].pc = "setup_sleep" /\ ex'[w].pc = "setup_driver"
    \/ ex[w].pc = "click_sleep" /\ ex'[w].pc = "click"
StartsBackoff(w) ==
    /\ ex[w].pc \in {"setup_driver", "click"}
    /\ ex'[w].pc \in {"setup_sleep", "click_sleep"}
StartsScrollIteration(w) == ex[w].pc = "ev_while" /\ ex'[w].pc = "ev_item"
StartsItem(w) ==
    /\ ex[w].pc = "ev_item"
    /\ ex'[w].scroll.i = ex[w].scroll.i + 1

\* C37: once a stop has been requested the worker starts no new
\* network-facing action other than teardown: no further attempt of a
\* retry-wrapped step and no backoff sleep followed by a retry, no new
\* scroll iteration and no new per-item extraction.
C37_NothingNewAfterStop ==
    [][\A w \in Workers :
         ex[w].stop =>
             /\ ~RetriesStep(w)
             /\ ~StartsBackoff(w)
             /\ ~StartsScrollIteration(w)
             /\ ~StartsItem(w)]_vars

\* What get returns for the pair pg over mapping c at the current instant.
GetOf(c, pg) == GetResult(c, pg[1], pg[2], now, ttl_hours)

\* C38: cache entries of distinct (project, page) pairs are isolated: a set
\* on one pair never changes what get returns for another pair, and
\* clear(project) changes what get returns only for pairs of that project,
\* also for pairs whose project or page text contains the ':' separator.
C38_PairsAreIsolated ==
    [][/\ last_op'.op = "set" =>
             \A pg \in Pages :
                 pg # <<last_op'.project, last_op'.page>>
                     => GetOf(cache', pg) = GetOf(cache, pg)
       /\ (last_op'.op = "clear" /\ last_op'.project # NoProject) =>
             \A pg \in Pages :
                 pg[1] # last_op'.project
                     => GetOf(cache', pg) = GetOf(cache, pg)]_vars

(***************************************************************************)
(*                         Claims about cleanup                            *)
(***************************************************************************)

\* A step in which worker w's extractor runs cleanup.
CleanupStep(w) == ex'[w].cleanups = ex[w].cleanups + 1

\* C39: cleanup calls quit on the browser session at most once per acquired
\* session and always leaves the engine holding no session reference
\* afterwards, even when quit itself raises; calling cleanup again, or when
\* no session was ever acquired, performs no browser call and raises
\* nothing.
C39_CleanupQuitsOnceAndDropsSession ==
    /\ [] \A s \in 1..Len(browser) : browser[s].quit_calls <= 1
    /\ [][\A w \in Workers :
             CleanupStep(w) =>
                 /\ ex'[w].driver = 0
                 /\ ex'[w].outcome = ex[w].outcome
                 /\ ex[w].driver # 0 =>
                        /\ browser'[ex[w].driver].quit_calls =
                               browser[ex[w].driver].quit_calls + 1
                        /\ \A s \in 1..Len(browser) :
                               s # ex[w].driver => browser'[s] = browser[s]
                 /\ ex[w].driver = 0 =>
                        /\ browser' = browser
                        /\ faults' = faults]_vars
    /\ [] \A w \in Workers : ex[w].cleanups >= 1 => ex[w].driver = 0

\* cleanup was called twice on an extractor whose session's quit raised: the
\* session has had one quit call, is still open, and is no longer referred
\* to.
C39_Witness ==
    \E w \in Workers :
        /\ ex[w].cleanups = 2
        /\ ex[w].driver = 0
        /\ \E s \in SessionsOf(w) :
               browser[s].quit_calls = 1 /\ ~browser[s].closed

=============================================================================
